---------------------------- MODULE Spec2Model ----------------------------
(***************************************************************************)
(* A model of the DeepState / Transformer estimators, the DeepState        *)
(* networks and the negative-binomial distribution of gluon-ts.            *)
(*                                                                         *)
(* Three specifications share the variables of the module:                 *)
(*   SpecNB   the NegativeBinomial distribution and its output projection  *)
(*   SpecEst  the life cycle of an estimator (construction, factories)     *)
(*   SpecNet  one forward pass of a DeepState network over an LDS          *)
(* Each leaves the variables of the other two at their idle values.        *)
(***************************************************************************)
EXTENDS Integers, Sequences, FiniteSets, TLC

VARIABLES
    nb_pc,      \* position in the distribution scenario
    nb_raw,     \* the raw activations handed to domain_map
    nb_args,    \* (mu, alpha) as domain_map returned them
    nb_scale,   \* the scale handed to distribution(), <<>> for None
    nb_distr,   \* the distribution object built last
    nb_stats,   \* the mean and stddev read from nb_distr
    nb_draw     \* the trace of the last sample() call

nbvars == <<nb_pc, nb_raw, nb_args, nb_scale, nb_distr, nb_stats, nb_draw>>

VARIABLES
    est_pc,     \* "none", "constructed" or "failed" (the constructor raised)
    est_args,   \* the arguments the constructor was called with
    est_self,   \* the attributes assigned on the estimator object so far
    est_error,  \* the first exception raised: [type, op], None if none
    est_trans,  \* what create_transformation returned, None before
    est_train,  \* what create_training_network returned, None before
    est_pred    \* what create_predictor returned, None before

estvars ==
    <<est_pc, est_args, est_self, est_error, est_trans, est_train, est_pred>>

VARIABLES
    net,        \* the network object: its attributes, None before it is built
    net_pc,     \* "none", "built", "first", "repeat", "between" or "again"
    net_first,  \* the first call of hybrid_forward: inputs, draws, result
    net_last    \* the last call, with the values it computed on the way

netvars == <<net, net_pc, net_first, net_last>>

VARIABLES
    tr_pc,      \* "none", "constructed" or "failed", of the TransformerEstimator
    tr_args,    \* the arguments its constructor was called with
    tr_self,    \* the attributes assigned on it so far
    tr_error,   \* the exception its constructor raised: [type, op], None if none
    tr_trans,   \* what create_transformation returned, None before
    tr_train,   \* what create_training_network returned, None before
    tr_pred     \* what create_predictor returned, None before

trvars == <<tr_pc, tr_args, tr_self, tr_error, tr_trans, tr_train, tr_pred>>

VARIABLES
    psf_pc,     \* "none", "processed" or "tested"
    psf_given,  \* the timestamp given to ProcessStartField.process
    psf_freq,   \* the frequency string given to it
    psf_result, \* the timestamp it returned, None before
    psf_expected \* the timestamp the test compares it with, None outside the test

psfvars == <<psf_pc, psf_given, psf_freq, psf_result, psf_expected>>

vars == <<nbvars, estvars, netvars, trvars, psfvars>>

None == <<>>
Some(x) == <<x>>

\* no network has been built
NetIdle ==
    net = None /\ net_pc = "none" /\ net_first = None /\ net_last = None

\* no TransformerEstimator has been constructed
TrIdle ==
    /\ tr_pc = "none" /\ tr_args = None /\ tr_self = None
    /\ tr_error = None /\ tr_trans = None /\ tr_train = None
    /\ tr_pred = None

\* ProcessStartField.process has not been called
PsfIdle ==
    /\ psf_pc = "none" /\ psf_given = None /\ psf_freq = None
    /\ psf_result = None /\ psf_expected = None

\* no estimator has been constructed
EstIdle ==
    /\ est_pc = "none" /\ est_args = None /\ est_self = None
    /\ est_error = None /\ est_trans = None /\ est_train = None
    /\ est_pred = None

(***************************************************************************)
(* Tensor scalars.  A finite number is n/d * 10^e, kept in the normal form *)
(* gcd(n, d) = 1, d coprime to 10, n not a multiple of 10 (0 is 0/1*10^0). *)
(* d = 0 encodes the non-finite floats: inf (n = 1), -inf (n = -1) and     *)
(* nan (n = 0).  Products and quotients are exact.  A sum is exact unless  *)
(* one term is more than SigDigits orders of magnitude below the other, in *)
(* which case it is absorbed, as in floating point.                        *)
(***************************************************************************)
SigDigits == 3

Abs(i) == IF i < 0 THEN -i ELSE i

RECURSIVE Gcd(_, _)
Gcd(a, b) == IF b = 0 THEN a ELSE Gcd(b, a % b)

RECURSIVE Pow10(_)
Pow10(k) == IF k = 0 THEN 1 ELSE 10 * Pow10(k - 1)

RECURSIVE StripDen(_, _, _)
StripDen(n, d, e) ==
    IF d % 2 = 0 THEN StripDen(n * 5, d \div 2, e - 1)
    ELSE IF d % 5 = 0 THEN StripDen(n * 2, d \div 5, e - 1)
    ELSE [n |-> n, d |-> d, e |-> e]

RECURSIVE StripNum(_, _, _)
StripNum(n, d, e) ==
    IF n % 10 = 0 THEN StripNum(n \div 10, d, e + 1)
    ELSE [n |-> n, d |-> d, e |-> e]

Zero == [n |-> 0, d |-> 1, e |-> 0]
One == [n |-> 1, d |-> 1, e |-> 0]
Inf == [n |-> 1, d |-> 0, e |-> 0]
NegInf == [n |-> -1, d |-> 0, e |-> 0]
NaN == [n |-> 0, d |-> 0, e |-> 0]

\* n/d * 10^e with d > 0, in normal form
Norm(n, d, e) ==
    IF n = 0 THEN Zero
    ELSE LET g == Gcd(Abs(n), d)
             s == StripDen(n \div g, d \div g, e)
             t == StripNum(Abs(s.n), s.d, s.e)
         IN  [n |-> IF n < 0 THEN -t.n ELSE t.n, d |-> t.d, e |-> t.e]

Dec(m, e) == Norm(m, 1, e)
IsFinite(a) == a.d # 0
IsNaN(a) == a.d = 0 /\ a.n = 0
Sign(a) == IF a.n > 0 THEN 1 ELSE IF a.n < 0 THEN -1 ELSE 0
Neg(a) == [a EXCEPT !.n = -a.n]
AbsN(a) == [a EXCEPT !.n = Abs(a.n)]

\* a <= b for finite a > 0, b > 0: n1*d2*10^e1 <= n2*d1*10^e2 without overflow
LeqPos(a, b) ==
    LET L == a.n * b.d
        R == b.n * a.d
        g == a.e - b.e
    IN  IF g >= 0
          THEN IF g > 9 THEN FALSE ELSE L <= R \div Pow10(g)
          ELSE IF -g > 9 THEN TRUE ELSE ~(R <= (L - 1) \div Pow10(-g))

\* a <= b; any comparison with nan is false
Leq(a, b) ==
    IF IsNaN(a) \/ IsNaN(b) THEN FALSE
    ELSE IF a = b THEN TRUE
    ELSE IF ~IsFinite(a) THEN a.n < 0
    ELSE IF ~IsFinite(b) THEN b.n > 0
    ELSE IF Sign(a) # Sign(b) THEN Sign(a) < Sign(b)
    ELSE IF Sign(a) > 0 THEN LeqPos(a, b)
    ELSE LeqPos(Neg(b), Neg(a))

Less(a, b) == Leq(a, b) /\ a # b

Mul(a, b) ==
    IF IsNaN(a) \/ IsNaN(b) THEN NaN
    ELSE IF ~IsFinite(a) \/ ~IsFinite(b)
      THEN IF Sign(a) * Sign(b) > 0 THEN Inf
           ELSE IF Sign(a) * Sign(b) < 0 THEN NegInf ELSE NaN
    ELSE Norm(a.n * b.n, a.d * b.d, a.e + b.e)

\* 1.0 / a: a float division, 1/0 is inf and raises nothing
Recip(a) ==
    IF IsNaN(a) THEN NaN
    ELSE IF ~IsFinite(a) THEN Zero
    ELSE IF a.n = 0 THEN Inf
    ELSE IF a.n > 0 THEN Norm(a.d, a.n, -a.e)
    ELSE Norm(-a.d, -a.n, -a.e)

Shift(a, k) == IF a.n = 0 THEN a ELSE [a EXCEPT !.e = a.e + k]

\* the exact sum of two finite numbers whose magnitudes are within SigDigits
AddExact(a, b) ==
    LET lo == IF a.e <= b.e THEN a.e ELSE b.e
    IN  Norm(a.n * Pow10(a.e - lo) * b.d + b.n * Pow10(b.e - lo) * a.d,
             a.d * b.d, lo)

Add(a, b) ==
    IF IsNaN(a) \/ IsNaN(b) THEN NaN
    ELSE IF ~IsFinite(a) THEN (IF ~IsFinite(b) /\ b # a THEN NaN ELSE a)
    ELSE IF ~IsFinite(b) THEN b
    ELSE IF a.n = 0 THEN b
    ELSE IF b.n = 0 THEN a
    ELSE IF Less(Shift(AbsN(b), SigDigits), AbsN(a)) THEN a
    ELSE IF Less(Shift(AbsN(a), SigDigits), AbsN(b)) THEN b
    ELSE AddExact(a, b)

MaxN(a, b) == IF IsNaN(a) \/ IsNaN(b) THEN NaN ELSE IF Leq(a, b) THEN b ELSE a
MinN(a, b) == IF IsNaN(a) \/ IsNaN(b) THEN NaN ELSE IF Leq(a, b) THEN a ELSE b

\* the largest s with s*s <= v, for 0 <= v, by bisection on lo <= s < hi
RECURSIVE ISqrtIn(_, _, _)
ISqrtIn(v, lo, hi) ==
    IF hi - lo <= 1 THEN lo
    ELSE LET mid == (lo + hi) \div 2
         IN  IF mid * mid <= v THEN ISqrtIn(v, mid, hi) ELSE ISqrtIn(v, lo, mid)

ISqrt(v) == ISqrtIn(v, 0, 46341)

\* digits the square root keeps
SqrtDigits == 2

\* n scaled by 100^q until n/d has at least 2*SqrtDigits digits
RECURSIVE SqrtScale(_, _, _)
SqrtScale(n, d, q) ==
    IF n \div d >= Pow10(2 * SqrtDigits) THEN [v |-> n \div d, q |-> q]
    ELSE SqrtScale(n * 100, d, q + 1)

\* the mantissa and the exponent of the rounded root of a finite a > 0
SqrtParts(a) ==
    LET up == a.e % 2 # 0 /\ a.n >= Pow10(8)
        ev == IF a.e % 2 = 0 THEN a.e ELSE IF up THEN a.e + 1 ELSE a.e - 1
        nv == IF a.e % 2 = 0 THEN a.n ELSE IF up THEN a.n \div 10 ELSE a.n * 10
        sc == SqrtScale(nv, a.d, 0)
    IN  [m |-> ISqrt(sc.v), e |-> (ev \div 2) - sc.q]

\* the unit in the last place of Sqrt(a), for a finite a > 0
SqrtUlp(a) == Dec(1, SqrtParts(a).e)

\* F.sqrt: nan below zero, otherwise the root rounded down to the grid of SqrtUlp
Sqrt(a) ==
    IF IsNaN(a) \/ Sign(a) < 0 THEN NaN
    ELSE IF ~IsFinite(a) THEN Inf
    ELSE IF a.n = 0 THEN Zero
    ELSE Norm(SqrtParts(a).m, 1, SqrtParts(a).e)

\* the integer part of a finite a >= 0 that is below 2^31
Floor(a) ==
    IF a.n = 0 THEN 0
    ELSE IF a.e >= 0 THEN (a.n * Pow10(a.e)) \div a.d
    ELSE IF -a.e > 9 THEN 0
    ELSE (a.n \div a.d) \div Pow10(-a.e)

(***************************************************************************)
(* gluonts.distribution.neg_binomial                                       *)
(***************************************************************************)

\* softplus(F, x) = log(1 + exp(x)) of the tensor library, on a float: the
\* exponential is absorbed by the 1 far below zero (the result is exactly 0),
\* the 1 by the exponential far above (the result is x); in between the
\* result is max(x, 0) plus a positive correction that shrinks with |x|.
SoftplusCut == 17

Softplus(x) ==
    IF Less(x, Dec(-SoftplusCut, 0)) THEN Zero
    ELSE IF Less(Dec(SoftplusCut, 0), x) THEN x
    ELSE AddExact(MaxN(x, Zero), Norm(70 \div (1 + Floor(AbsN(x))), 100, 0))

\* the additive floor of domain_map
DomainFloor == Dec(1, -8)

DomainMapNoFloor(mu, alpha) == [mu |-> Softplus(mu), alpha |-> Softplus(alpha)]

\* NegativeBinomialOutput.domain_map, on one element
DomainMap(mu, alpha) ==
    [mu |-> Add(Softplus(mu), DomainFloor),
     alpha |-> Add(Softplus(alpha), DomainFloor)]

\* NegativeBinomial.__init__
NegativeBinomial(mu, alpha) ==
    [cls |-> "NegativeBinomial", mu |-> mu, alpha |-> alpha]

\* what DistributionOutput.distribution, the method overwritten, builds
AffineTransformed(distr, scale) ==
    [cls |-> "TransformedDistribution", mu |-> distr.mu, alpha |-> distr.alpha,
     scale |-> scale]

DistributionAffine(distr_args, scale) ==
    IF scale = None
      THEN NegativeBinomial(distr_args.mu, distr_args.alpha)
      ELSE AffineTransformed(
               NegativeBinomial(distr_args.mu, distr_args.alpha), scale[1])

DistributionSqrtScale(distr_args, scale) ==
    IF scale = None
      THEN NegativeBinomial(distr_args.mu, distr_args.alpha)
      ELSE NegativeBinomial(Mul(distr_args.mu, scale[1]),
                            Mul(distr_args.alpha, Sqrt(scale[1])))

\* NegativeBinomialOutput.distribution; scale is None or Some(s)
Distribution(distr_args, scale) ==
    IF scale = None
      THEN NegativeBinomial(distr_args.mu, distr_args.alpha)
      ELSE NegativeBinomial(Mul(distr_args.mu, scale[1]),
                            Mul(distr_args.alpha, Sqrt(Add(scale[1], One))))

\* NegativeBinomial.mean
Mean(distr) == distr.mu

StddevNoSquare(distr) ==
    Sqrt(Mul(distr.mu, Add(One, distr.alpha)))

\* NegativeBinomial.stddev
Stddev(distr) ==
    Sqrt(Mul(distr.mu, Add(One, Mul(distr.mu, distr.alpha))))

\* the constants of NegativeBinomial.sample
Tol == Dec(1, -5)
ClampHigh == Dec(1, 10)
RateCap == Dec(1, 6)

\* F.random.gamma(shape, scale) and F.random.poisson(lam) are defined for a
\* finite shape > 0 and scale > 0, and for a finite rate >= 0
GammaDefined(shape, scale) ==
    /\ IsFinite(shape) /\ Sign(shape) > 0
    /\ IsFinite(scale) /\ Sign(scale) > 0

PoissonDefined(lam) == IsFinite(lam) /\ Sign(lam) >= 0

\* the variates F.random.gamma may return: multiples of the mean shape*scale
GammaFactors == {Zero, Dec(1, -3), One, Dec(4, 0)}

\* the counts F.random.poisson may return for a rate that is defined
PoissonDraws(lam) ==
    IF ~PoissonDefined(lam) \/ Less(Dec(2, 9), lam) THEN {0}
    ELSE {0, Floor(lam), Floor(lam) + 1}

ClampLowOnly(x) == MaxN(Tol, x)

\* F.minimum(F.maximum(tol, x), 1e10)
Clamp(x) == MinN(MaxN(Tol, x), ClampHigh)

\* the inner function s of NegativeBinomial.sample with its two random draws:
\* g picks the gamma variate, k the poisson count
SampleS(mu, alpha, g, k) ==
    LET r == Clamp(Recip(alpha))
        theta == Clamp(Mul(alpha, mu))
        variate == Mul(g, Mul(r, theta))
        x == MinN(variate, RateCap)
    IN  [shape |-> r, scale |-> theta, gamma |-> variate, rate |-> x,
         raised |-> ~GammaDefined(r, theta) \/ ~PoissonDefined(x),
         result |-> k]

\* the raw activations, the scales and the parameters tried
RawActivations ==
    {Dec(-100, 0), Dec(-20, 0), Dec(-13, 0), Dec(-6, 0), Zero, Dec(6, 0),
     Dec(20, 0)}
Scales == {Dec(3, 0), Dec(8, 0), Dec(1, -10)}
ParamValues ==
    {Zero, Dec(1, -12), Dec(1, -8), Dec(5, -1), One, Dec(3, 0), Dec(2, 3),
     Dec(1, 12)}

NBIdle ==
    /\ nb_pc = "idle" /\ nb_raw = None /\ nb_args = None /\ nb_scale = None
    /\ nb_distr = None /\ nb_stats = None /\ nb_draw = None

\* the output projection maps a pair of raw activations
NBDomainMap ==
    /\ nb_pc = "idle"
    /\ \E mu \in RawActivations, alpha \in RawActivations :
          /\ nb_raw' = [mu |-> mu, alpha |-> alpha]
          /\ nb_args' = DomainMap(mu, alpha)
    /\ nb_pc' = "args"
    /\ UNCHANGED <<nb_scale, nb_distr, nb_stats, nb_draw>>
    /\ UNCHANGED <<estvars, netvars, trvars, psfvars>>

\* distribution(distr_args, scale) on what domain_map returned
NBDistribution ==
    /\ nb_pc = "args"
    /\ \E scale \in {None} \cup {Some(s) : s \in Scales} :
          /\ nb_scale' = scale
          /\ nb_distr' = Distribution(nb_args, scale)
    /\ nb_pc' = "distr"
    /\ UNCHANGED <<nb_raw, nb_args, nb_stats, nb_draw>>
    /\ UNCHANGED <<estvars, netvars, trvars, psfvars>>

\* a caller builds NegativeBinomial(mu, alpha) itself
NBConstruct ==
    /\ nb_pc = "idle"
    /\ \E mu \in ParamValues, alpha \in ParamValues :
          nb_distr' = NegativeBinomial(mu, alpha)
    /\ nb_pc' = "built"
    /\ UNCHANGED <<nb_raw, nb_args, nb_scale, nb_stats, nb_draw>>
    /\ UNCHANGED <<estvars, netvars, trvars, psfvars>>

\* the mean and stddev properties are read
NBStats ==
    /\ nb_pc \in {"distr", "built"}
    /\ nb_distr.cls = "NegativeBinomial"
    /\ nb_stats = None
    /\ nb_stats' = [mean |-> Mean(nb_distr), stddev |-> Stddev(nb_distr)]
    /\ UNCHANGED <<nb_pc, nb_raw, nb_args, nb_scale, nb_distr, nb_draw>>
    /\ UNCHANGED <<estvars, netvars, trvars, psfvars>>

\* sample() draws once
NBSample ==
    /\ nb_pc \in {"distr", "built"}
    /\ nb_distr.cls = "NegativeBinomial"
    /\ nb_draw = None
    /\ \E g \in GammaFactors :
          \E k \in PoissonDraws(SampleS(nb_distr.mu, nb_distr.alpha, g, 0).rate) :
              nb_draw' = SampleS(nb_distr.mu, nb_distr.alpha, g, k)
    /\ UNCHANGED <<nb_pc, nb_raw, nb_args, nb_scale, nb_distr, nb_stats>>
    /\ UNCHANGED <<estvars, netvars, trvars, psfvars>>

NextNB ==
    \/ NBDomainMap
    \/ NBDistribution
    \/ NBConstruct
    \/ NBStats
    \/ NBSample

InitNB == NBIdle /\ EstIdle /\ NetIdle /\ TrIdle /\ PsfIdle

SpecNB == InitNB /\ [][NextNB]_vars

(***************************************************************************)
(* gluonts.model.deepstate: the estimator                                  *)
(***************************************************************************)

\* pandas' to_offset on the frequency strings tried: the multiple n and the
\* name of the base offset ("W" is the alias of "W-SUN")
ToOffset(freq_str) ==
    CASE freq_str = "M" -> [name |-> "M", n |-> 1]
      [] freq_str = "2M" -> [name |-> "M", n |-> 2]
      [] freq_str = "13M" -> [name |-> "M", n |-> 13]
      [] freq_str = "W" -> [name |-> "W-SUN", n |-> 1]
      [] freq_str = "D" -> [name |-> "D", n |-> 1]
      [] freq_str = "400D" -> [name |-> "D", n |-> 400]
      [] freq_str = "B" -> [name |-> "B", n |-> 1]
      [] freq_str = "H" -> [name |-> "H", n |-> 1]
      [] freq_str = "T" -> [name |-> "T", n |-> 1]
      [] freq_str = "Q" -> [name |-> "Q-DEC", n |-> 1]
      [] freq_str = "12M" -> [name |-> "M", n |-> 12]
      [] freq_str = "A-DEC" -> [name |-> "A-DEC", n |-> 1]

FREQ_LONGEST_PERIOD_DICT ==
    [name \in {"M", "W-SUN", "D", "B", "H", "T"} |->
        CASE name = "M" -> 12
          [] name = "W-SUN" -> 52
          [] name = "D" -> 365
          [] name = "B" -> 365
          [] name = "H" -> 168
          [] name = "T" -> 1440]

\* the result of a call: the value, or the exception raised
Ok(v) == [raised |-> "", val |-> v]
Raise(type) == [raised |-> type, val |-> None]

\* longest_period_from_frequency_str: a KeyError for a name not in the table
LongestPeriodFromFrequencyStr(freq_str) ==
    LET offset == ToOffset(freq_str)
    IN  IF offset.name \in DOMAIN FREQ_LONGEST_PERIOD_DICT
          THEN Ok(FREQ_LONGEST_PERIOD_DICT[offset.name] \div offset.n)
          ELSE Raise("KeyError")

\* the season-period table of CompositeISSM
SeasonTable ==
    [name \in {"M", "W-SUN", "D", "B", "H", "T"} |->
        CASE name = "M" -> <<12>>
          [] name = "W-SUN" -> <<53>>
          [] name = "D" -> <<7>>
          [] name = "B" -> <<7>>
          [] name = "H" -> <<24, 7>>
          [] name = "T" -> <<60, 24>>]

\* CompositeISSM.get_from_freq: unsupported frequencies are a configuration error
GetFromFreq(freq_str, add_trend) ==
    LET offset == ToOffset(freq_str)
    IN  IF offset.name \in DOMAIN SeasonTable
          THEN Ok([seasonal |-> SeasonTable[offset.name],
                   add_trend |-> add_trend])
          ELSE Raise("RuntimeError")

\* CompositeISSM.seasonal_features: one feature per seasonal block
SeasonalFeatures(freq_str) ==
    LET offset == ToOffset(freq_str)
    IN  IF offset.name \in DOMAIN SeasonTable
          THEN Ok(SeasonTable[offset.name])
          ELSE Raise("RuntimeError")

\* time_features_from_frequency_str: the default time features of a frequency
TimeFeaturesFromFrequencyStr(freq_str) ==
    LET offset == ToOffset(freq_str)
    IN  IF offset.name \in {"M", "W-SUN", "D", "B", "H", "T"}
          THEN Ok(<<"default", offset.name>>)
          ELSE Raise("RuntimeError")

\* the trainer the estimator is given
DefaultTrainer == [epochs |-> 25, hybridize |-> FALSE, batch_size |-> 32]

\* DeepStateEstimator(freq="D", prediction_length=2): every other argument at
\* its default; dropout_rate is in hundredths
BaseArgs ==
    [freq |-> "D", prediction_length |-> 2, add_trend |-> FALSE,
     past_length |-> None, num_periods_to_train |-> 4,
     trainer |-> DefaultTrainer, num_layers |-> 2, num_cells |-> 40,
     cell_type |-> "lstm", num_eval_samples |-> 100, dropout_rate |-> 10,
     use_feat_dynamic_real |-> FALSE, use_feat_static_cat |-> FALSE,
     cardinality |-> None, embedding_dimension |-> 20, issm |-> None,
     scaling |-> TRUE, time_features |-> None]

ArgNames ==
    <<"freq", "prediction_length", "add_trend", "past_length",
      "num_periods_to_train", "num_layers", "num_cells", "cell_type",
      "num_eval_samples", "dropout_rate", "use_feat_dynamic_real",
      "use_feat_static_cat", "cardinality", "embedding_dimension", "issm",
      "scaling", "time_features">>

CustomISSM == [seasonal |-> <<2>>, add_trend |-> FALSE]

\* the values tried for an argument besides the one of BaseArgs
Alternatives(name) ==
    CASE name = "freq" -> {"M", "2M", "13M", "W", "400D", "B", "H", "T", "Q"}
      [] name = "prediction_length" -> {0}
      [] name = "add_trend" -> {TRUE}
      [] name = "past_length" -> {Some(0), Some(5)}
      [] name = "num_periods_to_train" -> {1, 0}
      [] name = "num_layers" -> {0}
      [] name = "num_cells" -> {0}
      [] name = "cell_type" -> {"gru"}
      [] name = "num_eval_samples" -> {0}
      [] name = "dropout_rate" -> {-10, 0}
      [] name = "use_feat_dynamic_real" -> {TRUE}
      [] name = "use_feat_static_cat" -> {TRUE}
      [] name = "cardinality" -> {Some(<<3>>), Some(<<2, 0>>), Some(<<>>)}
      [] name = "embedding_dimension" -> {0}
      [] name = "issm" -> {Some(CustomISSM)}
      [] name = "scaling" -> {FALSE}
      [] name = "time_features" -> {Some(<<"custom">>)}

\* how many arguments of a call may differ from BaseArgs
MaxOverrides == 4

\* the truth value Python gives a list: a non-empty list is true
Truthy(list) == Len(list) > 0

AssertsHoldNoNumCells(a) ==
    /\ a.prediction_length > 0
    /\ a.past_length = None \/ a.past_length[1] > 0
    /\ a.num_layers > 0
    /\ a.num_eval_samples > 0
    /\ a.dropout_rate >= 0
    /\ a.cardinality # None \/ ~a.use_feat_static_cat
    /\ a.cardinality = None
         \/ Truthy([i \in 1..Len(a.cardinality[1]) |-> a.cardinality[1][i] > 0])
    /\ a.embedding_dimension > 0

\* the assert statements of DeepStateEstimator.__init__, in their order
AssertsHold(a) ==
    /\ a.prediction_length > 0
    /\ a.past_length = None \/ a.past_length[1] > 0
    /\ a.num_layers > 0
    /\ a.num_cells > 0
    /\ a.num_eval_samples > 0
    /\ a.dropout_rate >= 0
    /\ a.cardinality # None \/ ~a.use_feat_static_cat
    /\ a.cardinality = None
         \/ Truthy([i \in 1..Len(a.cardinality[1]) |-> a.cardinality[1][i] > 0])
    /\ a.embedding_dimension > 0

\* the object after super().__init__(trainer=trainer): the base class keeps
\* the trainer, which create_predictor reads as self.trainer
SelfAfterSuper(a) == [trainer |-> a.trainer]

\* ... after self.freq = freq
SelfAfterFreq(a) == SelfAfterSuper(a) @@ [freq |-> a.freq]

SelfCardinalityAsGiven(a) ==
    IF a.cardinality # None THEN a.cardinality[1] ELSE <<1>>

\* self.cardinality = cardinality if use_feat_static_cat else [1]
SelfCardinality(a) == IF a.use_feat_static_cat THEN a.cardinality[1] ELSE <<1>>

\* ... after the assignments from self.past_length to self.embedding_dimension
SelfAfterPlain(a, past_length) ==
    SelfAfterFreq(a)
    @@ [past_length |-> past_length,
        prediction_length |-> a.prediction_length,
        add_trend |-> a.add_trend,
        num_layers |-> a.num_layers,
        num_cells |-> a.num_cells,
        cell_type |-> a.cell_type,
        num_sample_paths |-> a.num_eval_samples,
        scaling |-> a.scaling,
        dropout_rate |-> a.dropout_rate,
        use_feat_dynamic_real |-> a.use_feat_dynamic_real,
        use_feat_static_cat |-> a.use_feat_static_cat,
        cardinality |-> SelfCardinality(a),
        embedding_dimension |-> a.embedding_dimension]

\* DeepStateEstimator.__init__: the attributes assigned when it returns or
\* raises, and the exception raised ("" when it returns)
EstimatorInit(a) ==
    IF ~AssertsHold(a)
      THEN [self |-> SelfAfterSuper(a), raised |-> "AssertionError"]
    ELSE LET period == IF a.past_length # None THEN Ok(0)
                       ELSE LongestPeriodFromFrequencyStr(a.freq)
             past_length == IF a.past_length # None THEN a.past_length[1]
                            ELSE a.num_periods_to_train * period.val
             issm == IF a.issm # None THEN Ok(a.issm[1])
                     ELSE GetFromFreq(a.freq, a.add_trend)
             time_features == IF a.time_features # None
                                THEN Ok(a.time_features[1])
                                ELSE TimeFeaturesFromFrequencyStr(a.freq)
         IN  IF period.raised # ""
               THEN [self |-> SelfAfterFreq(a), raised |-> period.raised]
             ELSE IF issm.raised # ""
               THEN [self |-> SelfAfterPlain(a, past_length),
                     raised |-> issm.raised]
             ELSE IF time_features.raised # ""
               THEN [self |-> SelfAfterPlain(a, past_length)
                                @@ [issm |-> issm.val],
                     raised |-> time_features.raised]
             ELSE [self |-> SelfAfterPlain(a, past_length)
                              @@ [issm |-> issm.val,
                                  time_features |-> time_features.val],
                   raised |-> ""]

\* the fields create_transformation always removes, and the chain it builds
CreateTransformation(self) ==
    LET seasonal == SeasonalFeatures(self.freq)
    IN  IF seasonal.raised # "" THEN Raise(seasonal.raised)
        ELSE Ok([remove_field_names |->
                    {"feat_dynamic_cat", "feat_static_real"}
                    \cup (IF self.use_feat_dynamic_real THEN {}
                          ELSE {"feat_dynamic_real"}),
                 set_feat_static_cat |->
                    IF self.use_feat_static_cat THEN None ELSE Some(<<0>>),
                 seasonal_features |-> seasonal.val,
                 time_features |-> self.time_features,
                 use_feat_dynamic_real |-> self.use_feat_dynamic_real,
                 instance_length |-> self.past_length,
                 prediction_length |-> self.prediction_length])

\* the latent dimension of an ISSM: level, trend if present, seasonal blocks
RECURSIVE SumSeq(_)
SumSeq(q) == IF q = <<>> THEN 0 ELSE Head(q) + SumSeq(Tail(q))

LatentDim(issm) ==
    1 + (IF issm.add_trend THEN 1 ELSE 0) + SumSeq(issm.seasonal)

\* DeepStateNetwork.__init__: the attributes and the blocks it builds
DeepStateNetworkInit(a) ==
    [num_layers |-> a.num_layers,
     num_cells |-> a.num_cells,
     cell_type |-> a.cell_type,
     past_length |-> a.past_length,
     prediction_length |-> a.prediction_length,
     issm |-> a.issm,
     dropout_rate |-> a.dropout_rate,
     cardinality |-> a.cardinality,
     embedding_dimension |-> a.embedding_dimension,
     num_cat |-> Len(a.cardinality),
     scaling |-> a.scaling,
     prior_units |-> LatentDim(a.issm),
     lstm |-> [k \in 1..a.num_layers |->
                  [cell |-> "LSTMCell", hidden_size |-> a.num_cells,
                   residual |-> k > 1, zoneout |-> a.dropout_rate > 0]],
     embedding_dims |-> [i \in 1..Len(a.cardinality) |-> a.embedding_dimension],
     scaler |-> IF a.scaling THEN "MeanScaler" ELSE "NOPScaler"]

\* the keyword arguments both create_training_network and create_predictor pass
NetworkArgs(self) ==
    [num_layers |-> self.num_layers,
     num_cells |-> self.num_cells,
     cell_type |-> self.cell_type,
     past_length |-> self.past_length,
     prediction_length |-> self.prediction_length,
     issm |-> self.issm,
     dropout_rate |-> self.dropout_rate,
     cardinality |-> self.cardinality,
     embedding_dimension |-> self.embedding_dimension,
     scaling |-> self.scaling]

\* DeepStateEstimator.create_training_network
CreateTrainingNetwork(self) ==
    [cls |-> "DeepStateTrainingNetwork"] @@ DeepStateNetworkInit(NetworkArgs(self))

\* DeepStatePredictionNetwork.__init__
PredictionNetworkInit(num_sample_paths, a) ==
    [cls |-> "DeepStatePredictionNetwork", num_sample_paths |-> num_sample_paths]
    @@ DeepStateNetworkInit(a)

\* DeepStateEstimator.create_predictor
CreatePredictor(self, transformation, trained_network) ==
    [input_transform |-> transformation,
     prediction_net |->
         PredictionNetworkInit(self.num_sample_paths, NetworkArgs(self)),
     batch_size |-> self.trainer.batch_size,
     freq |-> self.freq,
     prediction_length |-> self.prediction_length]

\* DeepStateEstimator(**a) runs: its outcome and what it left on the object
EstConstructWith(a) ==
    /\ est_args' = a
    /\ est_self' = EstimatorInit(a).self
    /\ est_pc' = IF EstimatorInit(a).raised = "" THEN "constructed"
                 ELSE "failed"
    /\ est_error' = IF EstimatorInit(a).raised = "" THEN None
                    ELSE [type |-> EstimatorInit(a).raised, op |-> "__init__"]

\* the calls that change at most k of the arguments ArgNames[i..] of a
RECURSIVE EstConstructAmong(_, _, _)
EstConstructAmong(i, k, a) ==
    IF i > Len(ArgNames) \/ k = 0 THEN EstConstructWith(a)
    ELSE \/ EstConstructAmong(i + 1, k, a)
         \/ \E v \in Alternatives(ArgNames[i]) :
               EstConstructAmong(i + 1, k - 1, [a EXCEPT ![ArgNames[i]] = v])

\* DeepStateEstimator(...) is called
EstConstruct ==
    /\ est_pc = "none"
    /\ EstConstructAmong(1, MaxOverrides, BaseArgs)
    /\ UNCHANGED <<est_trans, est_train, est_pred>>
    /\ UNCHANGED <<nbvars, netvars, trvars, psfvars>>

\* estimator.create_transformation()
EstCreateTransformation ==
    /\ est_pc = "constructed"
    /\ est_trans = None
    /\ est_error = None
    /\ LET r == CreateTransformation(est_self)
       IN  IF r.raised = ""
             THEN est_trans' = r.val /\ UNCHANGED est_error
             ELSE /\ est_error' = [type |-> r.raised,
                                   op |-> "create_transformation"]
                  /\ UNCHANGED est_trans
    /\ UNCHANGED <<est_pc, est_args, est_self, est_train, est_pred>>
    /\ UNCHANGED <<nbvars, netvars, trvars, psfvars>>

\* estimator.create_training_network()
EstCreateTrainingNetwork ==
    /\ est_pc = "constructed"
    /\ est_train = None
    /\ est_train' = CreateTrainingNetwork(est_self)
    /\ UNCHANGED <<est_pc, est_args, est_self, est_error, est_trans, est_pred>>
    /\ UNCHANGED <<nbvars, netvars, trvars, psfvars>>

\* estimator.create_predictor(transformation, trained_network), as train() calls it
EstCreatePredictor ==
    /\ est_pc = "constructed"
    /\ est_trans # None
    /\ est_train # None
    /\ est_pred = None
    /\ est_pred' = CreatePredictor(est_self, est_trans, est_train)
    /\ UNCHANGED <<est_pc, est_args, est_self, est_error, est_trans, est_train>>
    /\ UNCHANGED <<nbvars, netvars, trvars, psfvars>>

NextEst ==
    \/ EstConstruct
    \/ EstCreateTransformation
    \/ EstCreateTrainingNetwork
    \/ EstCreatePredictor

InitEst == NBIdle /\ EstIdle /\ NetIdle /\ TrIdle /\ PsfIdle

SpecEst == InitEst /\ [][NextEst]_vars

(***************************************************************************)
(* gluonts.model.transformer: TransformerEstimator                         *)
(***************************************************************************)

\* get_lags_for_frequency: the default lags of a frequency
GetLagsForFrequency(freq_str) ==
    LET offset == ToOffset(freq_str)
    IN  IF offset.name \in {"M", "W-SUN", "D", "B", "H", "T"}
          THEN Ok(<<1, 2, FREQ_LONGEST_PERIOD_DICT[offset.name]>>)
          ELSE Raise("RuntimeError")

\* the largest element of a non-empty list
RECURSIVE MaxOf(_)
MaxOf(q) ==
    IF Len(q) = 1 THEN q[1]
    ELSE IF Head(q) >= MaxOf(Tail(q)) THEN Head(q) ELSE MaxOf(Tail(q))

\* TransformerEstimator(freq="D", prediction_length=2): every other argument
\* at its default; dropout_rate is in hundredths
TrBaseArgs ==
    [freq |-> "D", prediction_length |-> 2, context_length |-> None,
     trainer |-> DefaultTrainer, dropout_rate |-> 10, cardinality |-> None,
     embedding_dimension |-> 20, distr_output |-> "StudentTOutput",
     model_dim |-> 32, inner_ff_dim_scale |-> 4, pre_seq |-> "dn",
     post_seq |-> "drn", act_type |-> "softrelu", num_heads |-> 8,
     scaling |-> TRUE, lags_seq |-> None, time_features |-> None,
     use_feat_dynamic_real |-> FALSE, use_feat_static_cat |-> FALSE,
     num_parallel_samples |-> 100]

TrArgNames ==
    <<"freq", "prediction_length", "context_length", "dropout_rate",
      "cardinality", "embedding_dimension", "scaling", "lags_seq",
      "time_features", "use_feat_dynamic_real", "use_feat_static_cat",
      "num_parallel_samples">>

\* the values tried for an argument besides the one of TrBaseArgs
TrAlternatives(name) ==
    CASE name = "freq" -> {"M", "W", "H", "Q"}
      [] name = "prediction_length" -> {0}
      [] name = "context_length" -> {Some(0), Some(3)}
      [] name = "dropout_rate" -> {-10}
      [] name = "cardinality" -> {Some(<<3>>), Some(<<2, 0>>), Some(<<>>)}
      [] name = "embedding_dimension" -> {0}
      [] name = "scaling" -> {FALSE}
      [] name = "lags_seq" -> {Some(<<1, 4>>)}
      [] name = "time_features" -> {Some(<<"custom">>)}
      [] name = "use_feat_dynamic_real" -> {TRUE}
      [] name = "use_feat_static_cat" -> {TRUE}
      [] name = "num_parallel_samples" -> {0}

\* the assert statements of TransformerEstimator.__init__, in their order
TrAssertsHold(a) ==
    /\ a.prediction_length > 0
    /\ a.context_length = None \/ a.context_length[1] > 0
    /\ a.dropout_rate >= 0
    /\ a.cardinality # None \/ ~a.use_feat_static_cat
    /\ a.cardinality = None
         \/ Truthy([i \in 1..Len(a.cardinality[1]) |-> a.cardinality[1][i] > 0])
    /\ a.embedding_dimension > 0
    /\ a.num_parallel_samples > 0

\* self.cardinality = cardinality if use_feat_static_cat else [1]
TrSelfCardinality(a) == IF a.use_feat_static_cat THEN a.cardinality[1] ELSE <<1>>

\* the object after the assignments from self.freq to self.num_parallel_samples
TrSelfAfterPlain(a) ==
    [trainer |-> a.trainer,
     freq |-> a.freq,
     prediction_length |-> a.prediction_length,
     context_length |-> IF a.context_length # None THEN a.context_length[1]
                        ELSE a.prediction_length,
     distr_output |-> a.distr_output,
     dropout_rate |-> a.dropout_rate,
     use_feat_dynamic_real |-> a.use_feat_dynamic_real,
     use_feat_static_cat |-> a.use_feat_static_cat,
     cardinality |-> TrSelfCardinality(a),
     embedding_dimension |-> a.embedding_dimension,
     num_parallel_samples |-> a.num_parallel_samples]

\* self.config
TrConfig(a) ==
    [model_dim |-> a.model_dim, pre_seq |-> a.pre_seq, post_seq |-> a.post_seq,
     dropout_rate |-> a.dropout_rate,
     inner_ff_dim_scale |-> a.inner_ff_dim_scale, act_type |-> a.act_type,
     num_heads |-> a.num_heads]

\* TransformerEstimator.__init__: the attributes assigned when it returns or
\* raises, and the exception raised ("" when it returns)
TrEstimatorInit(a) ==
    IF ~TrAssertsHold(a)
      THEN [self |-> [trainer |-> a.trainer], raised |-> "AssertionError"]
    ELSE LET plain == TrSelfAfterPlain(a)
             lags_seq == IF a.lags_seq # None THEN Ok(a.lags_seq[1])
                         ELSE GetLagsForFrequency(a.freq)
             time_features == IF a.time_features # None
                                THEN Ok(a.time_features[1])
                                ELSE TimeFeaturesFromFrequencyStr(a.freq)
         IN  IF lags_seq.raised # ""
               THEN [self |-> plain, raised |-> lags_seq.raised]
             ELSE IF time_features.raised # ""
               THEN [self |-> plain @@ [lags_seq |-> lags_seq.val],
                     raised |-> time_features.raised]
             ELSE [self |-> plain
                      @@ [lags_seq |-> lags_seq.val,
                          time_features |-> time_features.val,
                          history_length |->
                              plain.context_length + MaxOf(lags_seq.val),
                          scaling |-> a.scaling,
                          config |-> TrConfig(a),
                          encoder |-> [length |-> plain.context_length,
                                       config |-> TrConfig(a), prefix |-> "enc_"],
                          decoder |-> [length |-> plain.prediction_length,
                                       config |-> TrConfig(a), prefix |-> "dec_"]],
                   raised |-> ""]

\* TransformerEstimator.create_transformation: the chain it builds
TrCreateTransformation(self) ==
    [remove_field_names |->
        {"feat_dynamic_cat", "feat_static_real"}
        \cup (IF self.use_feat_dynamic_real THEN {} ELSE {"feat_dynamic_real"}),
     set_feat_static_cat |->
        IF self.use_feat_static_cat THEN None ELSE Some(<<0>>),
     time_features |-> self.time_features,
     use_feat_dynamic_real |-> self.use_feat_dynamic_real,
     past_length |-> self.history_length,
     future_length |-> self.prediction_length]

\* the keyword arguments both create_training_network and create_predictor pass
TrNetworkArgs(self) ==
    [encoder |-> self.encoder,
     decoder |-> self.decoder,
     history_length |-> self.history_length,
     context_length |-> self.context_length,
     prediction_length |-> self.prediction_length,
     distr_output |-> self.distr_output,
     cardinality |-> self.cardinality,
     embedding_dimension |-> self.embedding_dimension,
     lags_seq |-> self.lags_seq,
     scaling |-> TRUE]

\* TransformerEstimator.create_training_network
TrCreateTrainingNetwork(self) ==
    [cls |-> "TransformerTrainingNetwork"] @@ TrNetworkArgs(self)

\* TransformerEstimator.create_predictor
TrCreatePredictor(self, transformation, trained_network) ==
    [input_transform |-> transformation,
     prediction_net |->
         [cls |-> "TransformerPredictionNetwork",
          num_parallel_samples |-> self.num_parallel_samples]
         @@ TrNetworkArgs(self),
     batch_size |-> self.trainer.batch_size,
     freq |-> self.freq,
     prediction_length |-> self.prediction_length]

\* TransformerEstimator(**a) runs: its outcome and what it left on the object
TrConstructWith(a) ==
    \E r \in {TrEstimatorInit(a)} :
        /\ tr_args' = a
        /\ tr_self' = r.self
        /\ tr_pc' = IF r.raised = "" THEN "constructed" ELSE "failed"
        /\ tr_error' = IF r.raised = "" THEN None
                       ELSE [type |-> r.raised, op |-> "__init__"]

\* the calls that change at most k of the arguments TrArgNames[i..] of a
RECURSIVE TrConstructAmong(_, _, _)
TrConstructAmong(i, k, a) ==
    IF i > Len(TrArgNames) \/ k = 0 THEN TrConstructWith(a)
    ELSE \/ TrConstructAmong(i + 1, k, a)
         \/ \E v \in TrAlternatives(TrArgNames[i]) :
               TrConstructAmong(i + 1, k - 1, [a EXCEPT ![TrArgNames[i]] = v])

\* TransformerEstimator(...) is called
TrConstruct ==
    /\ tr_pc = "none"
    /\ TrConstructAmong(1, MaxOverrides, TrBaseArgs)
    /\ UNCHANGED <<tr_trans, tr_train, tr_pred>>
    /\ UNCHANGED <<nbvars, estvars, netvars, psfvars>>

\* estimator.create_transformation()
TrCreateTransformationCall ==
    /\ tr_pc = "constructed"
    /\ tr_trans = None
    /\ tr_trans' = TrCreateTransformation(tr_self)
    /\ UNCHANGED <<tr_pc, tr_args, tr_self, tr_error, tr_train, tr_pred>>
    /\ UNCHANGED <<nbvars, estvars, netvars, psfvars>>

\* estimator.create_training_network()
TrCreateTrainingNetworkCall ==
    /\ tr_pc = "constructed"
    /\ tr_train = None
    /\ tr_train' = TrCreateTrainingNetwork(tr_self)
    /\ UNCHANGED <<tr_pc, tr_args, tr_self, tr_error, tr_trans, tr_pred>>
    /\ UNCHANGED <<nbvars, estvars, netvars, psfvars>>

\* estimator.create_predictor(transformation, trained_network), as train() calls it
TrCreatePredictorCall ==
    /\ tr_pc = "constructed"
    /\ tr_trans # None
    /\ tr_train # None
    /\ tr_pred = None
    /\ tr_pred' = TrCreatePredictor(tr_self, tr_trans, tr_train)
    /\ UNCHANGED <<tr_pc, tr_args, tr_self, tr_error, tr_trans, tr_train>>
    /\ UNCHANGED <<nbvars, estvars, netvars, psfvars>>

NextTr ==
    \/ TrConstruct
    \/ TrCreateTransformationCall
    \/ TrCreateTrainingNetworkCall
    \/ TrCreatePredictorCall

\* one estimator is constructed and used, a DeepStateEstimator or a
\* TransformerEstimator
NextEstimators ==
    \/ tr_pc = "none" /\ NextEst
    \/ est_pc = "none" /\ NextTr

SpecEstimators == InitEst /\ [][NextEstimators]_vars



(***************************************************************************)
(* Tensors of the network.  A tensor is its shape and its entries, indexed *)
(* from 1 by tuples as long as the shape.  Entries are fixed-point numbers: *)
(* the integer k stands for k / FxUnit, and products and quotients round   *)
(* down.  Axes are numbered from 0 as in the source, negative axes count   *)
(* from the end.  Every operator computes its operands once: Let binds the *)
(* value of an expression, Computed the values of a function.              *)
(***************************************************************************)

FxUnit == 100

Tenth == FxUnit \div 10

FxMul(a, b) == (a * b) \div FxUnit

FxDiv(a, b) == (a * FxUnit) \div b

Max(a, b) == IF a >= b THEN a ELSE b

Min(a, b) == IF a <= b THEN a ELSE b

\* F of the value of v
Let(v, F(_)) == CHOOSE r \in {F(w) : w \in {v}} : TRUE

\* F of the values of v1 and v2
Let2(v1, v2, F(_, _)) == Let(v1, LAMBDA w1 : Let(v2, LAMBDA w2 : F(w1, w2)))

\* the function f with every value computed
Computed(f) == f @@ <<>>

RECURSIVE Indices(_)
Indices(shape) ==
    IF shape = <<>> THEN {<<>>}
    ELSE {<<i>> \o r : i \in 1..Head(shape), r \in Indices(Tail(shape))}

Tensor(shape, Entry(_)) ==
    Let(shape, LAMBDA sh :
        [shape |-> sh, val |-> Computed([i \in Indices(sh) |-> Entry(i)])])

\* the position, from 1, of an axis of x
AxisPos(x, axis) == IF axis < 0 THEN Len(x.shape) + axis + 1 ELSE axis + 1

RemoveAt(q, k) == [i \in 1..(Len(q) - 1) |-> IF i < k THEN q[i] ELSE q[i + 1]]

InsertAt(q, k, v) ==
    [i \in 1..(Len(q) + 1) |-> IF i < k THEN q[i] ELSE IF i = k THEN v ELSE q[i - 1]]

\* x.slice_axis(axis, begin, end): end is None or Some(n), a negative begin
\* counts from the end of the axis
SliceAxis(x0, axis, begin, end) ==
    Let(x0, LAMBDA x :
        LET k == AxisPos(x, axis)
            first == IF begin < 0 THEN x.shape[k] + begin ELSE begin
            last == IF end = None THEN x.shape[k] ELSE end[1]
        IN  Tensor([x.shape EXCEPT ![k] = last - first],
                   LAMBDA i : x.val[[i EXCEPT ![k] = i[k] + first]]))

\* x.squeeze(axis): the axis, of length 1, is dropped
Squeeze(x0, axis) ==
    Let(x0, LAMBDA x :
        Tensor(RemoveAt(x.shape, AxisPos(x, axis)),
               LAMBDA i : x.val[InsertAt(i, AxisPos(x, axis), 1)]))

RECURSIVE MinOver(_, _, _, _)
MinOver(x, i, k, n) ==
    IF n = 1 THEN x.val[InsertAt(i, k, 1)]
    ELSE Let(MinOver(x, i, k, n - 1),
             LAMBDA rest : Min(x.val[InsertAt(i, k, n)], rest))

\* x.min(axis, keepdims=False)
MinAxis(x0, axis) ==
    Let(x0, LAMBDA x :
        Tensor(RemoveAt(x.shape, AxisPos(x, axis)),
               LAMBDA i : MinOver(x, i, AxisPos(x, axis), x.shape[AxisPos(x, axis)])))

RECURSIVE SumOver(_, _, _, _)
SumOver(x, i, k, n) ==
    IF n = 0 THEN 0 ELSE x.val[InsertAt(i, k, n)] + SumOver(x, i, k, n - 1)

\* x.sum(axis)
SumAxis(x0, axis) ==
    Let(x0, LAMBDA x :
        Tensor(RemoveAt(x.shape, AxisPos(x, axis)),
               LAMBDA i : SumOver(x, i, AxisPos(x, axis), x.shape[AxisPos(x, axis)])))

\* x.transpose(axes): axis k of the result is axis axes[k] of x
Transpose(x0, axes) ==
    Let(x0, LAMBDA x :
        Tensor([k \in 1..Len(axes) |-> x.shape[axes[k] + 1]],
               LAMBDA i : x.val[[j \in 1..Len(axes) |->
                                    i[CHOOSE k \in 1..Len(axes) : axes[k] + 1 = j]]]))

\* F.concat(x, y, dim): y after x along the axis
Concat(x0, y0, dim) ==
    Let2(x0, y0, LAMBDA x, y :
        LET k == AxisPos(x, dim)
        IN  Tensor([x.shape EXCEPT ![k] = x.shape[k] + y.shape[k]],
                   LAMBDA i : IF i[k] <= x.shape[k] THEN x.val[i]
                              ELSE y.val[[i EXCEPT ![k] = i[k] - x.shape[k]]]))

\* x.expand_dims(axis).repeat(axis, repeats)
ExpandRepeat(x0, axis, repeats) ==
    Let(x0, LAMBDA x :
        Tensor(InsertAt(x.shape, axis + 1, repeats),
               LAMBDA i : x.val[RemoveAt(i, axis + 1)]))

\* F.broadcast_mul(x, y) for x (batch, time, 1) and y (batch, time, n)
BroadcastMul(x0, y0) ==
    Let2(x0, y0, LAMBDA x, y :
        Tensor(y.shape, LAMBDA i : FxMul(x.val[<<i[1], i[2], 1>>], y.val[i])))

Negated(x0) == Let(x0, LAMBDA x : Tensor(x.shape, LAMBDA i : 0 - x.val[i]))

\* weighted_average(F, x, axis, weights): the mean of x along the axis over
\* the entries of non-zero weight, 0 where there are none
WeightedAverage(x0, axis, weights0) ==
    Let2(x0, weights0, LAMBDA x, weights :
        Let2(SumAxis(Tensor(x.shape,
                            LAMBDA i : IF weights.val[i] # 0
                                         THEN FxMul(x.val[i], weights.val[i])
                                         ELSE 0),
                     axis),
             SumAxis(weights, axis),
             LAMBDA total, sum_weights :
                 Tensor(total.shape,
                        LAMBDA i : FxDiv(total.val[i],
                                         Max(FxUnit, sum_weights.val[i])))))

\* vectors and matrices of one batch element, as sequences
VecAt(x, prefix, n) == Computed([i \in 1..n |-> x.val[prefix \o <<i>>]])

MatAt(x, prefix, n) ==
    Computed([i \in 1..n |-> Computed([j \in 1..n |-> x.val[prefix \o <<i, j>>]])])

RECURSIVE SumTo(_, _)
SumTo(f, n) == IF n = 0 THEN 0 ELSE f[n] + SumTo(f, n - 1)

Dot(u0, v0) ==
    Let2(u0, v0, LAMBDA u, v :
        Let(Computed([i \in 1..Len(u) |-> u[i] * v[i]]),
            LAMBDA products : SumTo(products, Len(u)) \div FxUnit))

MatVec(m0, v0) ==
    Let2(m0, v0, LAMBDA m, v : Computed([i \in 1..Len(m) |-> Dot(m[i], v)]))

Transposed(m0) ==
    Let(m0, LAMBDA m :
        Computed([j \in 1..Len(m) |-> Computed([i \in 1..Len(m) |-> m[i][j]])]))

MatMul(m0, n0) ==
    Let2(m0, Transposed(n0), LAMBDA m, nt :
        Computed([i \in 1..Len(m) |-> MatVec(nt, m[i])]))

(***************************************************************************)
(* gluonts.distribution.lds: the innovation state-space model              *)
(***************************************************************************)

\* the latent slot where seasonal block j of an ISSM starts, minus one
RECURSIVE SeasonOffset(_, _)
SeasonOffset(issm, j) ==
    IF j = 1 THEN 1 + (IF issm.add_trend THEN 1 ELSE 0)
    ELSE SeasonOffset(issm, j - 1) + issm.seasonal[j - 1]

\* whether latent slot i is one the seasonal indicators ind select: the
\* level and the trend always are, a season slot when its index is the
\* indicator of its block
Selected(issm, ind, i) ==
    \/ i <= 1 + (IF issm.add_trend THEN 1 ELSE 0)
    \/ \E j \in 1..Len(issm.seasonal) :
          i = SeasonOffset(issm, j) + ind[j] + 1

\* ISSM.get_issm_coeff: emission (batch, time, latent), transition (batch,
\* time, latent, latent) and innovation (batch, time, latent) coefficients of
\* the seasonal indicators (batch, time, number of seasonal blocks)
GetIssmCoeff(issm, seasonal_indicators0) ==
    Let(seasonal_indicators0, LAMBDA seasonal_indicators :
        LET B == seasonal_indicators.shape[1]
            T == seasonal_indicators.shape[2]
            L == LatentDim(issm)
            ind(i) == VecAt(seasonal_indicators, <<i[1], i[2]>>, Len(issm.seasonal))
        IN  Let(Tensor(<<B, T, L>>,
                       LAMBDA i : IF Selected(issm, ind(i), i[3]) THEN FxUnit ELSE 0),
                LAMBDA onehot :
                    [emission_coeff |-> onehot,
                     transition_coeff |->
                         Tensor(<<B, T, L, L>>,
                                LAMBDA i : IF \/ i[3] = i[4]
                                              \/ issm.add_trend /\ i[3] = 1 /\ i[4] = 2
                                             THEN FxUnit ELSE 0),
                     innovation_coeff |-> onehot]))

(***************************************************************************)
(* gluonts.distribution.lds: the linear dynamical system                   *)
(***************************************************************************)

\* LDS(...): the object holds what it is given
LDS(emission_coeff, transition_coeff, innovation_coeff, noise_std, residuals, prior_mean, prior_cov, latent_dim, output_dim, seq_length) ==
    [emission_coeff |-> emission_coeff, transition_coeff |-> transition_coeff,
     innovation_coeff |-> innovation_coeff, noise_std |-> noise_std,
     residuals |-> residuals, prior_mean |-> prior_mean,
     prior_cov |-> prior_cov, latent_dim |-> latent_dim,
     output_dim |-> output_dim, seq_length |-> seq_length]

\* the floor added to a predictive variance before dividing by it
VarFloor == 1

RECURSIVE Log2(_)
Log2(n) == IF n <= 1 THEN 0 ELSE 1 + Log2(n \div 2)

\* the natural logarithm, to the nearest power of two of its argument
FxLn(v) == ((Log2(v) - Log2(FxUnit)) * 7 * FxUnit) \div 10

\* the log-density of y under a Gaussian of mean mu and variance var
LogDensity(y, mu, var) ==
    0 - ((92 * FxUnit) \div 100
         + FxLn(var + VarFloor) \div 2
         + ((y - mu) * (y - mu)) \div (2 * (var + VarFloor)))

\* step 1, the predicted observation of batch element b at time t: its mean
\* and variance, with the emission coefficient a and cov . a
Predicted(lds, b, t, mean, cov) ==
    Let(VecAt(lds.emission_coeff, <<b, t>>, lds.latent_dim), LAMBDA a :
        Let(MatVec(cov, a), LAMBDA pa :
            [a |-> a, pa |-> pa, mu |-> Dot(a, mean),
             var |-> Dot(a, pa) + FxMul(lds.noise_std.val[<<b, t, 1>>],
                                        lds.noise_std.val[<<b, t, 1>>])]))

\* step 3, the filtered state: the conditional-Gaussian update of the
\* predicted state by the observation y when observed, else the predicted
Filtered(p, y, obs, mean, cov) ==
    IF ~obs THEN [mean |-> mean, cov |-> cov]
    ELSE Let(Computed([i \in 1..Len(mean) |-> FxDiv(p.pa[i], p.var + VarFloor)]),
             LAMBDA gain :
                 [mean |-> Computed([i \in 1..Len(mean) |->
                                        mean[i] + FxMul(gain[i], y - p.mu)]),
                  cov |-> Computed([i \in 1..Len(mean) |->
                             Computed([j \in 1..Len(mean) |->
                                 cov[i][j] - FxMul(gain[i], p.pa[j])])])])

\* step 4, the state propagated to t + 1 from the filtered state f
Propagated(lds, b, t, f) ==
    Let2(MatAt(lds.transition_coeff, <<b, t>>, lds.latent_dim),
         VecAt(lds.innovation_coeff, <<b, t>>, lds.latent_dim),
         LAMBDA A, g :
             Let2(MatVec(A, f.mean), MatMul(A, MatMul(f.cov, Transposed(A))),
                  LAMBDA moved, spread :
                      [mean |-> Computed([i \in 1..Len(g) |->
                                   moved[i] + lds.residuals.val[<<b, t, 1>>]]),
                       cov |-> Computed([i \in 1..Len(g) |->
                                  Computed([j \in 1..Len(g) |->
                                      spread[i][j] + FxMul(g[i], g[j])])])]))

\* one step of the recursion for batch element b at time t, entered with
\* the predicted state (mean, cov)
KalmanStep(lds, x, observed, scale, b, t, mean, cov) ==
    LET y == FxDiv(x.val[<<b, t, 1>>], scale.val[<<b, 1>>])
        obs == observed.val[<<b, t>>] # 0
    IN  Let(Predicted(lds, b, t, mean, cov), LAMBDA p :
            Let(Filtered(p, y, obs, mean, cov), LAMBDA f :
                Let(Propagated(lds, b, t, f), LAMBDA next :
                    [mean |-> mean, cov |-> cov,
                     log_p |-> IF obs THEN LogDensity(y, p.mu, p.var) ELSE 0,
                     filtered_mean |-> f.mean, filtered_cov |-> f.cov,
                     next_mean |-> next.mean, next_cov |-> next.cov])))

\* the steps t..seq_length of the recursion for batch element b
RECURSIVE KalmanFilter(_, _, _, _, _, _, _, _)
KalmanFilter(lds, x, observed, scale, b, t, mean, cov) ==
    IF t > lds.seq_length THEN <<>>
    ELSE Let(KalmanStep(lds, x, observed, scale, b, t, mean, cov), LAMBDA step :
             <<step>> \o KalmanFilter(lds, x, observed, scale, b, t + 1,
                                      step.next_mean, step.next_cov))

\* the recursion of every batch element from the prior of the LDS
KalmanSteps(lds0, x0, observed0, scale0) ==
    Let2(lds0, x0, LAMBDA lds, x :
        Let2(observed0, scale0, LAMBDA observed, scale :
            Computed([b \in 1..x.shape[1] |->
                KalmanFilter(lds, x, observed, scale, b, 1,
                             VecAt(lds.prior_mean, <<b>>, lds.latent_dim),
                             MatAt(lds.prior_cov, <<b>>, lds.latent_dim))])))

\* lds.log_prob(x, observed, scale): the log-likelihoods (batch, time) and
\* the mean (batch, latent) and covariance (batch, latent, latent) the
\* recursion ends with
LogProb(lds, x, observed, scale) ==
    Let(KalmanSteps(lds, x, observed, scale), LAMBDA steps :
        LET B == Len(steps)
            T == Len(steps[1])
            L == Len(steps[1][1].mean)
        IN  <<Tensor(<<B, T>>, LAMBDA i : steps[i[1]][i[2]].log_p),
              Tensor(<<B, L>>, LAMBDA i : steps[i[1]][T].next_mean[i[2]]),
              Tensor(<<B, L, L>>, LAMBDA i : steps[i[1]][T].next_cov[i[2]][i[3]])>>)

\* the k-th standard normal draw of the random source rng
Draw(rng, k) == (((rng * 3 + k * 7) % 5) - 2) * (FxUnit \div 2)

\* the index of draw `which` of sample path s of batch element b at time t
DrawIndex(s, b, t, which) == ((s * 8 + b) * 8 + t) * 4 + which

FxSqrt(v) == ISqrt(Max(v, 0) * FxUnit)

\* the observations t..seq_length of sample path s of batch element b,
\* simulated from the sampled latent state
RECURSIVE SamplePath(_, _, _, _, _, _)
SamplePath(lds, rng, s, b, t, latent) ==
    IF t > lds.seq_length THEN <<>>
    ELSE Let2(VecAt(lds.emission_coeff, <<b, t>>, lds.latent_dim),
              VecAt(lds.innovation_coeff, <<b, t>>, lds.latent_dim),
              LAMBDA a, g :
         Let(MatVec(MatAt(lds.transition_coeff, <<b, t>>, lds.latent_dim), latent),
             LAMBDA moved :
         Let(Computed([i \in 1..Len(g) |->
                          moved[i] + lds.residuals.val[<<b, t, 1>>]
                          + FxMul(g[i], Draw(rng, DrawIndex(s, b, t, 2)))]),
             LAMBDA next :
                 <<Dot(a, latent) + FxMul(lds.noise_std.val[<<b, t, 1>>],
                                          Draw(rng, DrawIndex(s, b, t, 1)))>>
                 \o SamplePath(lds, rng, s, b, t + 1, next))))

\* lds.sample(num_samples, scale) with the draws of rng: the sampled
\* observations (sample, batch, time, output_dim), on the scale of the data
Sample(lds0, num_samples, scale0, rng) ==
    Let2(lds0, scale0, LAMBDA lds, scale :
        LET first(s, b) ==
                Computed([i \in 1..lds.latent_dim |->
                    lds.prior_mean.val[<<b, i>>]
                    + FxMul(FxSqrt(lds.prior_cov.val[<<b, i, i>>]),
                            Draw(rng, DrawIndex(s, b, 0, i)))])
        IN  Let(Computed([s \in 1..num_samples |->
                    Computed([b \in 1..lds.prior_mean.shape[1] |->
                        Let(first(s, b), LAMBDA latent :
                            SamplePath(lds, rng, s, b, 1, latent))])]),
                LAMBDA paths :
                    Tensor(<<num_samples, lds.prior_mean.shape[1],
                             lds.seq_length, lds.output_dim>>,
                           LAMBDA i : FxMul(paths[i[1]][i[2]][i[3]],
                                            scale.val[<<i[2], 1>>]))))

(***************************************************************************)
(* The blocks of the network                                               *)
(***************************************************************************)

Clip(v, bound) == Let(v, LAMBDA w : Max(0 - bound, Min(bound, w)))

\* MeanScaler(keepdims=False): the mean absolute observed value of each
\* batch element (batch, 1), at least the smallest positive number
MeanScaler(data0, observed0) ==
    Let2(data0, observed0, LAMBDA data, observed :
        Let2(SumAxis(Tensor(data.shape,
                            LAMBDA i : IF observed.val[i] # 0
                                         THEN Abs(data.val[i]) ELSE 0),
                     1),
             SumAxis(observed, 1),
             LAMBDA total, count :
                 Tensor(<<data.shape[1], 1>>,
                        LAMBDA i : Max(1, IF count.val[i] = 0 THEN FxUnit
                                          ELSE FxDiv(total.val[i], count.val[i])))))

\* NOPScaler(keepdims=False): ones
NOPScaler(data, observed) == Tensor(<<data.shape[1], 1>>, LAMBDA i : FxUnit)

\* self.scaler(data, observed)[1]
Scaler(self, data, observed) ==
    IF self.scaler = "MeanScaler" THEN MeanScaler(data, observed)
    ELSE NOPScaler(data, observed)

\* self.embedder(feat_static_cat): (batch, num_cat * embedding_dimension)
Embedder(self, feat_static_cat) ==
    LET E == self.embedding_dimension
    IN  Tensor(<<feat_static_cat.shape[1], self.num_cat * E>>,
               LAMBDA i : (feat_static_cat.val[<<i[1], ((i[2] - 1) \div E) + 1>>] * 3
                           + ((i[2] - 1) % E) + 1) * Tenth)

\* the new state of an LSTM cell on input u in state h, kept from before
\* when zoneout keeps it, and its output
LayerStep(cell, u, h, keep) ==
    Let(Computed([j \in 1..cell.hidden_size |->
            IF cell.zoneout /\ keep THEN h[j]
            ELSE Clip((h[j] + SumTo(u, Len(u)) + j * Tenth) \div 2, 2 * FxUnit)]),
        LAMBDA new :
            [state |-> new,
             out |-> IF cell.residual
                       THEN Computed([j \in 1..cell.hidden_size |-> new[j] + u[j]])
                       ELSE new])

\* one time step of the stacked cells k.. on input u with states st
RECURSIVE StackStep(_, _, _, _, _)
StackStep(self, k, u, st, keep) ==
    IF k > self.num_layers THEN [out |-> u, states |-> <<>>]
    ELSE Let(LayerStep(self.lstm[k], u, st[k], keep), LAMBDA r :
             Let(StackStep(self, k + 1, r.out, st, keep), LAMBDA rest :
                 [out |-> rest.out, states |-> <<r.state>> \o rest.states]))

\* the steps t..length for batch element b: the outputs and the final states
RECURSIVE UnrollFrom(_, _, _, _, _, _, _)
UnrollFrom(self, inputs, length, rng, b, t, st) ==
    IF t > length THEN [outputs |-> <<>>, states |-> st]
    ELSE Let(StackStep(self, 1, VecAt(inputs, <<b, t>>, inputs.shape[3]), st,
                       self.cls = "DeepStateTrainingNetwork"
                       /\ Draw(rng, DrawIndex(0, b, t, 3)) > 0),
             LAMBDA r :
                 Let(UnrollFrom(self, inputs, length, rng, b, t + 1, r.states),
                     LAMBDA rest : [outputs |-> <<r.out>> \o rest.outputs,
                                    states |-> rest.states]))

\* self.lstm.unroll(inputs, begin_state, length, merge_outputs=True): the
\* outputs (batch, length, num_cells) and the final states, per batch element
Unroll(self, inputs0, begin_state0, length, rng) ==
    Let2(inputs0, begin_state0, LAMBDA inputs, begin_state :
        LET zeros == Computed([k \in 1..self.num_layers |->
                                  Computed([j \in 1..self.num_cells |-> 0])])
        IN  Let(Computed([b \in 1..inputs.shape[1] |->
                    UnrollFrom(self, inputs, length, rng, b, 1,
                               IF begin_state = None THEN zeros
                               ELSE begin_state[1][b])]),
                LAMBDA runs :
                    [output |-> Tensor(<<inputs.shape[1], length, self.num_cells>>,
                                       LAMBDA i : runs[i[1]].outputs[i[2]][i[3]]),
                     final_state |->
                         Computed([b \in 1..inputs.shape[1] |-> runs[b].states])]))

\* the sum over the last axis of the encoder output
Pooled(output, prefix) ==
    Let(VecAt(output, prefix, output.shape[Len(output.shape)]),
        LAMBDA v : SumTo(v, Len(v)))

\* self.lds_proj(output): noise_std > 0, innovation > 0 and residuals, each
\* (batch, time, 1)
LDSArgsProj(output0) ==
    Let(output0, LAMBDA output :
        LET shape == <<output.shape[1], output.shape[2], 1>>
        IN  [noise_std |-> Tensor(shape, LAMBDA i :
                               Tenth + Abs(Pooled(output, <<i[1], i[2]>>)) \div 2),
             innovation |-> Tensor(shape, LAMBDA i :
                               2 * Tenth + Abs(Pooled(output, <<i[1], i[2]>>)) \div 4),
             residuals |-> Tensor(shape, LAMBDA i :
                               Pooled(output, <<i[1], i[2]>>) \div 4)])

\* self.prior_mean_model(prior_input): (batch, latent_dim)
PriorMeanModel(self, prior_input0) ==
    Let(prior_input0, LAMBDA prior_input :
        Tensor(<<prior_input.shape[1], self.prior_units>>,
               LAMBDA i : (Pooled(prior_input, <<i[1]>>) + i[2] * Tenth) \div 2))

\* the sigmoid activation, rounded to the numbers the tensor can hold: 0 or 1
\* once the argument is large enough for the result to round to them
Sigmoid(z) == Let(z, LAMBDA w : Max(0, Min(FxUnit, FxUnit \div 2 + w \div 4)))

PriorCovDiagModelLinear(self, prior_input0) ==
    Let(prior_input0, LAMBDA prior_input :
        Tensor(<<prior_input.shape[1], self.prior_units>>,
               LAMBDA i : self.params.prior_cov_weight
                          * (Pooled(prior_input, <<i[1]>>) - i[2] * Tenth)))

\* self.prior_cov_diag_model(prior_input): (batch, latent_dim)
PriorCovDiagModel(self, prior_input0) ==
    Let(prior_input0, LAMBDA prior_input :
        Tensor(<<prior_input.shape[1], self.prior_units>>,
               LAMBDA i : Sigmoid(self.params.prior_cov_weight
                                  * (Pooled(prior_input, <<i[1]>>) - i[2] * Tenth))))

\* make_nd_diag(F, x, d): the (batch, d, d) diagonal matrices of x
MakeNdDiag(x0, d) ==
    Let(x0, LAMBDA x :
        Tensor(<<x.shape[1], d, d>>,
               LAMBDA i : IF i[2] = i[3] THEN x.val[<<i[1], i[2]>>] ELSE 0))

(***************************************************************************)
(* gluonts.model.deepstate: the networks                                   *)
(***************************************************************************)

PriorCached(self, prior_input, prior_mean, prior_cov) ==
    IF prior_mean # None
      THEN [mean |-> prior_mean[1], cov |-> prior_cov[1], self |-> self]
    ELSE IF "prior" \in DOMAIN self
      THEN [mean |-> self.prior.mean, cov |-> self.prior.cov, self |-> self]
    ELSE Let2(PriorMeanModel(self, prior_input),
              MakeNdDiag(PriorCovDiagModel(self, prior_input), LatentDim(self.issm)),
              LAMBDA mean, cov :
                  [mean |-> mean, cov |-> cov,
                   self |-> self @@ [prior |-> [mean |-> mean, cov |-> cov]]])

\* compute_lds, the prior of the LDS: the one given, or the one the prior
\* models make of the first encoder output; and the network afterwards
Prior(self, prior_input, prior_mean, prior_cov) ==
    IF prior_mean = None
      THEN [mean |-> PriorMeanModel(self, prior_input),
            cov |-> MakeNdDiag(PriorCovDiagModel(self, prior_input),
                               LatentDim(self.issm)),
            self |-> self]
      ELSE [mean |-> prior_mean[1], cov |-> prior_cov[1], self |-> self]

\* self.compute_lds(...), with the random source of the call: the LDS, the
\* final state of the encoder, and the network afterwards
ComputeLds(self, feat_static_cat, seasonal_indicators, time_feat, length, prior_mean, prior_cov, lstm_begin_state, rng) ==
    Let(Unroll(self,
               Concat(time_feat,
                      ExpandRepeat(Embedder(self, feat_static_cat), 1, length),
                      2),
               lstm_begin_state, length, rng),
        LAMBDA unrolled :
    Let2(Prior(self, Squeeze(SliceAxis(unrolled.output, 1, 0, Some(1)), 1),
               prior_mean, prior_cov),
         GetIssmCoeff(self.issm, seasonal_indicators),
         LAMBDA prior, coeff :
    Let(LDSArgsProj(unrolled.output), LAMBDA proj :
        [lds |-> LDS(coeff.emission_coeff, coeff.transition_coeff,
                     BroadcastMul(proj.innovation, coeff.innovation_coeff),
                     proj.noise_std, proj.residuals, prior.mean, prior.cov,
                     LatentDim(self.issm), 1, length),
         lstm_final_state |-> unrolled.final_state,
         self |-> prior.self])))

ContextFromStart(self, x) == SliceAxis(x, 1, 0, Some(self.past_length))

\* x.slice_axis(axis=1, begin=-self.past_length, end=None): the context window
Context(self, x) == SliceAxis(x, 1, 0 - self.past_length, None)

TrainingLossUnweighted(ll, observed_context) ==
    WeightedAverage(Negated(ll), 1, Tensor(ll.shape, LAMBDA i : FxUnit))

\* what DeepStateTrainingNetwork.hybrid_forward returns
TrainingLoss(ll, observed_context) ==
    WeightedAverage(Negated(ll), 1, Squeeze(observed_context, -1))

TargetContextFromStart(self, past_target) ==
    SliceAxis(past_target, 1, 0, Some(self.past_length))

\* past_target.slice_axis(axis=1, begin=-self.past_length, end=None): the x
\* of log_prob
TargetContext(self, past_target) ==
    SliceAxis(past_target, 1, 0 - self.past_length, None)

\* what both networks hand to compute_lds and log_prob for the past window
Handed(self, in) ==
    Let2(Context(self, in.past_seasonal_indicators),
         Context(self, in.past_time_feat),
         LAMBDA seasonal_indicators, time_feat :
    Let2(TargetContext(self, in.past_target),
         Context(self, in.past_observed_values),
         LAMBDA x, observed_context :
    Let(MinAxis(observed_context, -1), LAMBDA observed :
        [seasonal_indicators |-> seasonal_indicators, time_feat |-> time_feat,
         length |-> self.past_length, x |-> x,
         observed_context |-> observed_context, observed |-> observed])))

\* DeepStateTrainingNetwork.hybrid_forward: what it returns, the network
\* afterwards, and the values it computes on the way
HybridForwardTraining(self, in, rng) ==
    Let(Handed(self, in), LAMBDA h :
    Let2(ComputeLds(self, in.feat_static_cat, h.seasonal_indicators,
                    h.time_feat, h.length, None, None, None, rng),
         Scaler(self, in.past_target, in.past_observed_values),
         LAMBDA c, scale :
    Let(LogProb(c.lds, h.x, h.observed, scale), LAMBDA log_prob :
        [out |-> TrainingLoss(log_prob[1], h.observed_context),
         self |-> c.self,
         locals |-> [lds |-> c.lds, scale |-> scale, observed |-> h.observed,
                     log_prob |-> log_prob,
                     steps |-> KalmanSteps(c.lds, h.x, h.observed, scale),
                     handed |-> h]])))

ForecastTimeMajor(samples) == Transpose(samples, <<1, 0, 2, 3>>)

\* samples.transpose(axes=(1, 0, 3, 2))
Forecast(samples) == Transpose(samples, <<1, 0, 3, 2>>)

ForecastPriorFromEncoder(log_prob) == [prior_mean |-> None, prior_cov |-> None]

\* prior_mean=final_mean, prior_cov=final_cov: the prior of the forecast LDS
ForecastPrior(log_prob) ==
    [prior_mean |-> Some(log_prob[2]), prior_cov |-> Some(log_prob[3])]

\* DeepStatePredictionNetwork.hybrid_forward: what it returns, the network
\* afterwards, the values it computes on the way and the calls it makes
HybridForwardPrediction(self, in, rng) ==
    Let(Handed(self, in), LAMBDA h :
    Let2(ComputeLds(self, in.feat_static_cat, h.seasonal_indicators,
                    h.time_feat, h.length, None, None, None, rng),
         Scaler(self, in.past_target, in.past_observed_values),
         LAMBDA c, scale :
    Let2(LogProb(c.lds, h.x, h.observed, scale), Some(c.lstm_final_state),
         LAMBDA log_prob, lstm_state :
    Let(ForecastPrior(log_prob), LAMBDA prior :
    Let(ComputeLds(c.self, in.feat_static_cat,
                   in.future_seasonal_indicators, in.future_time_feat,
                   self.prediction_length, prior.prior_mean, prior.prior_cov,
                   lstm_state, rng),
        LAMBDA p :
    Let(Sample(p.lds, self.num_sample_paths, scale, rng), LAMBDA samples :
        [out |-> Forecast(samples),
         self |-> p.self,
         locals |-> [lds |-> c.lds, scale |-> scale, observed |-> h.observed,
                     log_prob |-> log_prob,
                     steps |-> KalmanSteps(c.lds, h.x, h.observed, scale),
                     handed |-> h,
                     lds_prediction |-> p.lds, samples |-> samples,
                     calls |->
                        <<[op |-> "compute_lds", length |-> h.length,
                           prior_mean |-> None, prior_cov |-> None,
                           lstm_begin_state |-> None, lds |-> c.lds,
                           lstm_final_state |-> c.lstm_final_state],
                          [op |-> "log_prob", lds |-> c.lds, result |-> log_prob],
                          [op |-> "compute_lds",
                           length |-> self.prediction_length,
                           prior_mean |-> prior.prior_mean,
                           prior_cov |-> prior.prior_cov,
                           lstm_begin_state |-> lstm_state, lds |-> p.lds],
                          [op |-> "sample", lds |-> p.lds,
                           num_samples |-> self.num_sample_paths,
                           result |-> samples]>>]]))))))

(***************************************************************************)
(* SpecNet: hybrid_forward is run on a network, run on other inputs, and   *)
(* run again on the first inputs                                           *)
(***************************************************************************)

\* the batch size of the inputs
BatchSize == 2

\* how many time steps the past_* inputs have before the context window
Extra == 1

LevelTrend == [seasonal |-> <<>>, add_trend |-> TRUE]

LevelSeason == [seasonal |-> <<2>>, add_trend |-> FALSE]

\* the arguments of the networks tried
NetworkChoices ==
    {[num_layers |-> 2, num_cells |-> 1, cell_type |-> "lstm",
      past_length |-> 3, prediction_length |-> 2, issm |-> LevelTrend,
      dropout_rate |-> 10, cardinality |-> <<2>>, embedding_dimension |-> 1,
      scaling |-> TRUE],
     [num_layers |-> 1, num_cells |-> 2, cell_type |-> "lstm",
      past_length |-> 2, prediction_length |-> 1, issm |-> LevelSeason,
      dropout_rate |-> 0, cardinality |-> <<1>>, embedding_dimension |-> 1,
      scaling |-> FALSE]}

\* the parameters training left in the network: the weight of
\* prior_cov_diag_model is small in the first network, large in the second
Parameters(a) == [prior_cov_weight |-> IF a.num_layers > 1 THEN 1 ELSE 8]

\* the networks tried: a training network and a prediction network of each
Networks ==
    {[cls |-> "DeepStateTrainingNetwork", params |-> Parameters(a)]
        @@ DeepStateNetworkInit(a) : a \in NetworkChoices}
    \cup {[params |-> Parameters(a)] @@ PredictionNetworkInit(2, a) :
              a \in NetworkChoices}

\* whether batch element b is observed at time t of the past_* inputs, when
\* the first element is observed at the steps `pattern` of the context window
ObservedAt(self, pattern, seed, b, t) ==
    IF t > Extra
      THEN (((t - Extra - 1 + b - 1) % self.past_length) + 1) \in pattern
      ELSE (t + b + seed) % 2 = 0

\* the inputs of hybrid_forward: the data of `seed`, observed as `pattern` says
Batch(self, pattern, seed) ==
    LET B == BatchSize
        H == self.past_length + Extra
        P == self.prediction_length
        S == Len(self.issm.seasonal)
        season(i, t) == (t + seed) % self.issm.seasonal[i[3]]
    IN  [feat_static_cat |->
             Tensor(<<B, self.num_cat>>,
                    LAMBDA i : (i[1] - 1) % self.cardinality[i[2]]),
         past_observed_values |->
             Tensor(<<B, H, 1>>,
                    LAMBDA i : IF ObservedAt(self, pattern, seed, i[1], i[2])
                                 THEN FxUnit ELSE 0),
         past_seasonal_indicators |->
             Tensor(<<B, H, S>>, LAMBDA i : season(i, i[2])),
         past_time_feat |->
             Tensor(<<B, H, 1>>, LAMBDA i : (2 * i[2] - H) * Tenth),
         past_target |->
             Tensor(<<B, H, 1>>,
                    LAMBDA i : IF ObservedAt(self, pattern, seed, i[1], i[2])
                                 THEN (((seed * 5 + i[1] * 3 + i[2] * 7) % 9) + 1)
                                      * (FxUnit \div 2)
                                 ELSE 0),
         future_seasonal_indicators |->
             Tensor(<<B, P, S>>, LAMBDA i : season(i, H + i[2])),
         future_time_feat |->
             Tensor(<<B, P, 1>>, LAMBDA i : (2 * (H + i[2]) - H) * Tenth)]

\* net.hybrid_forward(...) with the draws of rng
HybridForward(self, in, rng) ==
    IF self.cls = "DeepStateTrainingNetwork"
      THEN HybridForwardTraining(self, in, rng)
      ELSE HybridForwardPrediction(self, in, rng)

\* the call is recorded: the first one is kept, the last one with the
\* values it computed
NetCalled(in, rng, r) ==
    LET call == [in |-> in, rng |-> rng, out |-> r.out]
    IN  /\ net' = r.self
        /\ net_last' = call @@ [locals |-> r.locals]
        /\ net_first' = IF net_pc = "built" THEN call ELSE net_first
        /\ net_pc' = IF net_pc = "built" THEN "first"
                     ELSE IF net_pc = "between" THEN "again"
                     ELSE IF in = net_first.in /\ rng = net_first.rng THEN "repeat"
                     ELSE "between"

\* hybrid_forward is called: on any inputs the first two times, and after
\* a call on other inputs once more on the inputs of the first call; the
\* seed of the data also seeds the random source of the call
NetForward ==
    /\ net_pc \in {"built", "first", "between"}
    /\ \E pattern \in SUBSET (1..net.past_length), seed \in {0, 1} :
          \E in \in {Batch(net, pattern, seed)} :
              /\ net_pc = "between" => in = net_first.in /\ seed = net_first.rng
              /\ \E r \in {HybridForward(net, in, seed)} : NetCalled(in, seed, r)
    /\ UNCHANGED <<nbvars, estvars, trvars, psfvars>>

\* DeepStateTrainingNetwork(...).hybrid_forward(...)
NetTrainingForward ==
    /\ net # None
    /\ net.cls = "DeepStateTrainingNetwork"
    /\ NetForward

\* DeepStatePredictionNetwork(...).hybrid_forward(...)
NetPredictionForward ==
    /\ net # None
    /\ net.cls = "DeepStatePredictionNetwork"
    /\ NetForward

NextNet == NetTrainingForward \/ NetPredictionForward

InitNet ==
    /\ NBIdle /\ EstIdle /\ TrIdle /\ PsfIdle
    /\ net \in Networks
    /\ net_pc = "built" /\ net_first = None /\ net_last = None

SpecNet == InitNet /\ [][NextNet]_vars

(***************************************************************************)
(* gluonts.dataset.common: ProcessStartField.process, and its test         *)
(* test/dataset/test_common.py.  A timestamp is a day number (days since   *)
(* 1970-01-01, proleptic Gregorian calendar) and the seconds of the day.   *)
(***************************************************************************)

\* the day number of the calendar date y-m-d
DaysFromCivil(y, m, d) ==
    Let(IF m <= 2 THEN y - 1 ELSE y, LAMBDA yy :
    Let(yy \div 400, LAMBDA era :
    Let(yy - era * 400, LAMBDA yoe :
        era * 146097
        + yoe * 365 + yoe \div 4 - yoe \div 100
        + (153 * ((m + 9) % 12) + 2) \div 5 + d - 1
        - 719468)))

\* the calendar date of a day number
CivilFromDays(z) ==
    Let(z + 719468, LAMBDA zz :
    Let(zz \div 146097, LAMBDA era :
    Let(zz - era * 146097, LAMBDA doe :
    Let((doe - doe \div 1460 + doe \div 36524 - doe \div 146096) \div 365,
        LAMBDA yoe :
    Let(doe - (365 * yoe + yoe \div 4 - yoe \div 100), LAMBDA doy :
    Let((5 * doy + 2) \div 153, LAMBDA mp :
    Let(IF mp < 10 THEN mp + 3 ELSE mp - 9, LAMBDA m :
        [year |-> yoe + era * 400 + (IF m <= 2 THEN 1 ELSE 0),
         month |-> m,
         day |-> doy - (153 * mp + 2) \div 5 + 1])))))))

\* the day of the week, Monday 0 to Sunday 6
Weekday(z) == (z + 3) % 7

\* pd.Timestamp(string): the timestamp a date-time string denotes
Timestamp(string) ==
    [day |-> DaysFromCivil(string.year, string.month, string.day),
     sec |-> string.hour * 3600 + string.minute * 60 + string.second]

\* whether day z is an anchor of the frequency
OnOffset(name, z) ==
    CASE name = "B" -> Weekday(z) < 5
      [] name = "W-SUN" -> Weekday(z) = 6
      [] name = "M" -> CivilFromDays(z + 1).day = 1
      [] name = "A-DEC" -> CivilFromDays(z + 1).day = 1
                           /\ CivilFromDays(z + 1).month = 1

\* offset.rollback(day): the day itself on an anchor, else the anchor before
Rollback(name, z) ==
    IF OnOffset(name, z) THEN z
    ELSE CASE name = "B" -> z - (Weekday(z) - 4)
           [] name = "W-SUN" -> z - (Weekday(z) + 1)
           [] name = "M" ->
                Let(CivilFromDays(z), LAMBDA c :
                    DaysFromCivil(c.year, c.month, 1) - 1)
           [] name = "A-DEC" ->
                Let(CivilFromDays(z), LAMBDA c : DaysFromCivil(c.year, 1, 1) - 1)

\* ProcessStartField.process(string, freq): the timestamp of the string with
\* the time of day dropped, rolled back to the frequency, which it carries
Process(given, freq) ==
    [day |-> Rollback(ToOffset(freq).name, given.day),
     sec |-> 0,
     freq |-> ToOffset(freq)]

\* given = "2019-11-01 12:34:56"
TestGiven ==
    [year |-> 2019, month |-> 11, day |-> 1,
     hour |-> 12, minute |-> 34, second |-> 56]

Date(y, m, d) ==
    [year |-> y, month |-> m, day |-> d, hour |-> 0, minute |-> 0, second |-> 0]

TestCasesRolledForward ==
    {<<"B", Date(2019, 11, 1)>>,
     <<"W", Date(2019, 11, 3)>>,
     <<"M", Date(2019, 11, 30)>>,
     <<"12M", Date(2019, 11, 30)>>,
     <<"A-DEC", Date(2019, 12, 31)>>}

\* the parameters of test_process_start_field: freq, expected
TestCases ==
    {<<"B", Date(2019, 11, 1)>>,
     <<"W", Date(2019, 10, 27)>>,
     <<"M", Date(2019, 10, 31)>>,
     <<"12M", Date(2019, 10, 31)>>,
     <<"A-DEC", Date(2018, 12, 31)>>}

\* the first day given to process, 2018-12-20, and how many days after it
\* are given as well
FirstDay == DaysFromCivil(2018, 12, 20)

MaxDays == 330

\* the frequencies given to process
StartFreqs == {"B", "W", "M", "2M", "12M", "A-DEC"}

\* process(given, freq) is called on a timestamp of the days tried, at
\* midnight or at 12:34:56
PsfProcess ==
    /\ psf_pc = "none"
    /\ \E day \in FirstDay..(FirstDay + MaxDays), sec \in {0, 45296},
          freq \in StartFreqs :
          /\ psf_given' = [day |-> day, sec |-> sec]
          /\ psf_freq' = freq
          /\ \E r \in {Process([day |-> day, sec |-> sec], freq)} :
                psf_result' = r
    /\ psf_pc' = "processed"
    /\ UNCHANGED psf_expected
    /\ UNCHANGED <<nbvars, estvars, netvars, trvars>>

\* test_process_start_field(freq, expected) runs up to its assert
PsfTest ==
    /\ psf_pc = "none"
    /\ \E case \in TestCases :
          /\ psf_given' = Timestamp(TestGiven)
          /\ psf_freq' = case[1]
          /\ \E r \in {Process(Timestamp(TestGiven), case[1])} : psf_result' = r
          /\ psf_expected' = Timestamp(case[2]) @@ [freq |-> ToOffset(case[1])]
    /\ psf_pc' = "tested"
    /\ UNCHANGED <<nbvars, estvars, netvars, trvars>>

NextPsf == PsfProcess \/ PsfTest

InitPsf == NBIdle /\ EstIdle /\ NetIdle /\ TrIdle /\ PsfIdle

SpecPsf == InitPsf /\ [][NextPsf]_vars


(***************************************************************************)
(* Claims about the networks, under SpecNet                                *)
(***************************************************************************)

\* whether the inputs of the last call have batch element b observed at
\* step t of the context window: every target dimension is, at that one of
\* the last past_length steps of past_observed_values
ObservedInWindow(b, t) ==
    LET observed == net_last.in.past_observed_values
    IN  \A d \in 1..observed.shape[3] :
           observed.val[<<b, observed.shape[2] - net.past_length + t, d>>] # 0

\* the steps of the recursion log_prob ran in the last call
LastSteps == net_last.locals.steps

ThmC3_ForecastLayout ==
    (net_last # None /\ net.cls = "DeepStatePredictionNetwork") =>
        LET samples == net_last.locals.samples
            result == net_last.out
        IN  /\ samples.shape =
                  <<net.num_sample_paths, BatchSize, net.prediction_length, 1>>
            /\ result.shape =
                  <<BatchSize, net.num_sample_paths, 1, net.prediction_length>>
            /\ \A b \in 1..BatchSize, s \in 1..net.num_sample_paths,
                  d \in 1..1, t \in 1..net.prediction_length :
                  result.val[<<b, s, d, t>>] = samples.val[<<s, b, t, d>>]

\* two sample paths over two steps for two batch elements, all different
WitC3_DistinctSamples ==
    /\ net_last # None
    /\ net.cls = "DeepStatePredictionNetwork"
    /\ net.prediction_length = 2 /\ net.num_sample_paths = 2
    /\ net_last.locals.samples.val[<<1, 2, 1, 1>>]
          # net_last.locals.samples.val[<<2, 1, 1, 1>>]
    /\ net_last.locals.samples.val[<<1, 1, 2, 1>>]
          # net_last.locals.samples.val[<<1, 1, 1, 1>>]
    /\ net_last.out.val[<<2, 1, 1, 2>>] = net_last.locals.samples.val[<<1, 2, 2, 1>>]

\* the sum over the observed steps of batch element b of the negated
\* log-likelihoods of the last call, and the number of those steps
RECURSIVE ObservedLoss(_, _)
ObservedLoss(b, t) ==
    IF t = 0 THEN 0
    ELSE ObservedLoss(b, t - 1)
         + (IF ObservedInWindow(b, t)
              THEN 0 - net_last.locals.log_prob[1].val[<<b, t>>] ELSE 0)

ObservedCount(b) == Cardinality({t \in 1..net.past_length : ObservedInWindow(b, t)})

RECURSIVE SumLogP(_, _)
SumLogP(b, t) == IF t = 0 THEN 0 ELSE SumLogP(b, t - 1) + LastSteps[b][t].log_p

Variance(distr) == Add(distr.mu, Mul(distr.alpha, Mul(distr.mu, distr.mu)))

\* s is the square root of v >= 0 on the grid of the tensor library
IsRootOf(s, v) ==
    IF v = Zero THEN s = Zero
    ELSE IF ~IsFinite(v) THEN s = v
    ELSE /\ Leq(Mul(s, s), v)
         /\ Less(v, Mul(AddExact(s, SqrtUlp(v)), AddExact(s, SqrtUlp(v))))

\* C5: for every NegativeBinomial(mu, alpha) whose mean and stddev were read,
\* mean is mu and stddev is the square root of mu + alpha * mu^2.
ThmC5_MeanStddev ==
    nb_stats # None =>
        /\ nb_stats.mean = nb_distr.mu
        /\ IsRootOf(nb_stats.stddev, Variance(nb_distr))

WitC5_StatsOfScaled ==
    /\ nb_stats # None
    /\ nb_pc = "distr"
    /\ nb_scale = Some(Dec(8, 0))
    /\ nb_distr.mu = Dec(488, -1)
    /\ nb_distr.alpha = Dec(183, -1)

\* C6: distribution((mu, alpha), scale) returns a NegativeBinomial, never an
\* affine wrapper; with scale None its parameters are (mu, alpha); with a
\* scale they are (mu * scale, alpha * sqrt(scale + 1)), so that the mean is
\* scale times the unscaled mean.
ThmC6_Distribution ==
    nb_pc = "distr" =>
        /\ nb_distr.cls = "NegativeBinomial"
        /\ nb_scale = None =>
              /\ nb_distr.mu = nb_args.mu
              /\ nb_distr.alpha = nb_args.alpha
        /\ nb_scale # None =>
              /\ nb_distr.mu = Mul(nb_args.mu, nb_scale[1])
              /\ Mean(nb_distr)
                   = Mul(nb_scale[1],
                         Mean(NegativeBinomial(nb_args.mu, nb_args.alpha)))
              /\ IsRootOf(Mul(nb_distr.alpha, Recip(nb_args.alpha)),
                          Add(nb_scale[1], One))

WitC6_Scaled ==
    /\ nb_pc = "distr"
    /\ nb_scale = Some(Dec(3, 0))
    /\ nb_args.alpha = Dec(61, -1)
    /\ nb_distr.alpha = Dec(122, -1)

\* C7: domain_map returns mu > 0 and alpha > 0, each at least 1e-8, for every
\* pair of raw activations, and a NegativeBinomial built from its output has
\* no zero or negative parameter.
ThmC7_DomainMapPositive ==
    nb_args # None =>
        /\ Sign(nb_args.mu) > 0 /\ Leq(DomainFloor, nb_args.mu)
        /\ Sign(nb_args.alpha) > 0 /\ Leq(DomainFloor, nb_args.alpha)
        /\ nb_pc = "distr" => Sign(nb_distr.mu) > 0 /\ Sign(nb_distr.alpha) > 0

WitC7_Underflow ==
    /\ nb_pc = "distr"
    /\ nb_raw.mu = Dec(-100, 0)
    /\ nb_args.mu = DomainFloor
    /\ nb_raw.alpha = Dec(-20, 0)

\* x clamped into [lo, hi], stated case by case
IsClampOf(c, x, lo, hi) ==
    /\ Leq(lo, c) /\ Leq(c, hi)
    /\ (Leq(lo, x) /\ Leq(x, hi)) => c = x
    /\ Less(x, lo) => c = lo
    /\ Less(hi, x) => c = hi

\* C8: sample never raises: the Gamma shape 1/alpha and the Gamma scale
\* alpha*mu are each clamped into [1e-5, 1e10] before the Gamma draw, the
\* variate is capped at 1e6 before it is the Poisson rate, and the sample is
\* a Poisson draw with that rate, a non-negative integer.
ThmC8_SampleClamped ==
    nb_draw # None =>
        /\ ~nb_draw.raised
        /\ IsClampOf(nb_draw.shape, Recip(nb_distr.alpha), Tol, ClampHigh)
        /\ IsClampOf(nb_draw.scale, Mul(nb_distr.alpha, nb_distr.mu),
                     Tol, ClampHigh)
        /\ Leq(nb_draw.rate, RateCap)
        /\ Leq(nb_draw.gamma, RateCap) => nb_draw.rate = nb_draw.gamma
        /\ nb_draw.result \in PoissonDraws(nb_draw.rate)
        /\ nb_draw.result \in Nat

WitC8_Extreme ==
    /\ nb_draw # None
    /\ nb_distr.alpha = Dec(1, -12)
    /\ nb_distr.mu = Dec(1, 12)
    /\ nb_draw.shape = ClampHigh
    /\ nb_draw.scale = One
    /\ Less(RateCap, nb_draw.gamma)
    /\ nb_draw.result = 1000000


(***************************************************************************)
(* Claims about the estimator, under SpecEst                               *)
(***************************************************************************)

\* a frequency the season-period table has an entry for
FreqSupported(freq_str) == ToOffset(freq_str).name \in DOMAIN SeasonTable

\* C9: an unsupported calendar frequency is rejected when the estimator is
\* constructed, whatever the other arguments are: no estimator is constructed
\* with one, and no error is first raised after construction.
CexC9_FreqRejectedAtConstruction ==
    /\ est_pc = "constructed" => FreqSupported(est_args.freq)
    /\ est_error # None => est_error.op = "__init__"

\* the argument values the assert statements are meant to reject
ViolatesChecked(a) ==
    \/ a.prediction_length <= 0
    \/ a.past_length # None /\ a.past_length[1] <= 0
    \/ a.num_layers <= 0
    \/ a.num_cells <= 0
    \/ a.num_eval_samples <= 0
    \/ a.embedding_dimension <= 0
    \/ a.dropout_rate < 0
    \/ a.use_feat_static_cat /\ a.cardinality = None

HasNonPositive(cardinality) ==
    /\ cardinality # None
    /\ \E i \in 1..Len(cardinality[1]) : cardinality[1][i] <= 0

\* C11: a DeepStateEstimator or TransformerEstimator called with a
\* cardinality list holding an element <= 0 fails with an AssertionError,
\* and every constructed estimator has only positive cardinality elements.
CexC11_CardinalityElementsPositive ==
    /\ (est_pc # "none" /\ HasNonPositive(est_args.cardinality)) =>
           est_pc = "failed" /\ est_error.type = "AssertionError"
    /\ est_pc = "constructed" =>
           \A i \in 1..Len(est_self.cardinality) : est_self.cardinality[i] > 0
    /\ (tr_pc # "none" /\ HasNonPositive(tr_args.cardinality)) =>
           tr_pc = "failed" /\ tr_error.type = "AssertionError"
    /\ tr_pc = "constructed" =>
           \A i \in 1..Len(tr_self.cardinality) : tr_self.cardinality[i] > 0

\* C13: the networks a TransformerEstimator creates are built with scaling
\* equal to the scaling argument of the constructor, as are those of a
\* DeepStateEstimator.
CexC13_ScalingPassedOn ==
    /\ tr_train # None => tr_train.scaling = tr_args.scaling
    /\ tr_pred # None => tr_pred.prediction_net.scaling = tr_args.scaling
    /\ est_train # None => est_train.scaling = est_args.scaling
    /\ est_pred # None => est_pred.prediction_net.scaling = est_args.scaling

\* whether static categorical feature values lie within the cardinalities
WithinCardinality(value, cardinality) ==
    /\ Len(value) = Len(cardinality)
    /\ \A i \in 1..Len(value) : value[i] >= 0 /\ value[i] < cardinality[i]

CexC12_TrainingSpansPeriods ==
    (est_pc = "constructed" /\ est_args.past_length = None) =>
        LET offset == ToOffset(est_args.freq)
            P == FREQ_LONGEST_PERIOD_DICT[offset.name]
        IN  /\ est_self.past_length
                  = est_args.num_periods_to_train * (P \div offset.n)
            /\ est_self.past_length * offset.n
                  >= est_args.num_periods_to_train * P

\* C14: every layer of the recurrent stack of the network is a cell of the
\* configured cell_type: GRU cells for 'gru', LSTM cells for 'lstm'.
CexC14_CellTypeSelectsCell ==
    est_train # None =>
        /\ est_train.cell_type = est_args.cell_type
        /\ \A k \in 1..est_train.num_layers :
              est_train.lstm[k].cell
                  = (IF est_args.cell_type = "gru" THEN "GRUCell" ELSE "LSTMCell")

\* C18: after a successful construction self.past_length is a positive
\* integer, supplied or derived.
CexC18_PastLengthPositive ==
    est_pc = "constructed" => est_self.past_length > 0

(***************************************************************************)
(* Claims about ProcessStartField.process, under SpecPsf                   *)
(***************************************************************************)

LastPriorCov == net_last.locals.lds.prior_cov

LastCalls == net_last.locals.calls

\* C16: DeepStatePredictionNetwork.hybrid_forward builds the LDS of the past
\* window with an encoder-derived prior, runs log_prob on it, builds the
\* forecast LDS of length prediction_length from exactly the final mean and
\* covariance log_prob returned and the final LSTM state of the first
\* compute_lds, and samples from the forecast LDS, never from the past one.
ThmC16_PredictionStepOrder ==
    (net_last # None /\ net.cls = "DeepStatePredictionNetwork") =>
        /\ Len(LastCalls) = 4
        /\ LastCalls[1].op = "compute_lds"
        /\ LastCalls[1].length = net.past_length
        /\ LastCalls[1].prior_mean = None /\ LastCalls[1].prior_cov = None
        /\ LastCalls[1].lstm_begin_state = None
        /\ LastCalls[2].op = "log_prob"
        /\ LastCalls[2].lds = LastCalls[1].lds
        /\ LastCalls[3].op = "compute_lds"
        /\ LastCalls[3].length = net.prediction_length
        /\ LastCalls[3].prior_mean = Some(LastCalls[2].result[2])
        /\ LastCalls[3].prior_cov = Some(LastCalls[2].result[3])
        /\ LastCalls[3].lstm_begin_state = Some(LastCalls[1].lstm_final_state)
        /\ LastCalls[3].lds.seq_length = net.prediction_length
        /\ LastCalls[3].lds.prior_mean = LastCalls[2].result[2]
        /\ LastCalls[3].lds.prior_cov = LastCalls[2].result[3]
        /\ LastCalls[4].op = "sample"
        /\ LastCalls[4].lds = LastCalls[3].lds
        /\ LastCalls[4].lds # LastCalls[1].lds
        /\ LastCalls[4].result = net_last.locals.samples
        /\ net_last.out = Forecast(LastCalls[4].result)

\* a prediction network has run whose forecast prior differs from the prior
\* of its past window and whose encoder did not end where it began
WitC16_ForecastFromFilteredState ==
    /\ net_last # None
    /\ net.cls = "DeepStatePredictionNetwork"
    /\ net.past_length # net.prediction_length
    /\ LastCalls[3].lds.prior_mean # LastCalls[1].lds.prior_mean
    /\ LastCalls[3].lds.prior_cov # LastCalls[1].lds.prior_cov
    /\ \E b \in 1..BatchSize, k \in 1..net.num_layers, j \in 1..net.num_cells :
          LastCalls[1].lstm_final_state[b][k][j] # 0

\* whether part is whole restricted to the last T steps of its time axis
IsLastWindow(part, whole, T) ==
    /\ part.shape = [whole.shape EXCEPT ![2] = T]
    /\ \A i \in Indices(part.shape) :
          part.val[i] = whole.val[[i EXCEPT ![2] = i[2] + whole.shape[2] - T]]

\* C19: in both networks the seasonal indicators, the time features, the
\* targets and the observed mask handed to the LDS are the last past_length
\* steps of the inputs, so index t means the same time step in each, and the
\* LDS has seq_length past_length.
ThmC19_SameWindow ==
    net_last # None =>
        LET h == net_last.locals.handed
            in == net_last.in
            T == net.past_length
        IN  /\ in.past_target.shape[2] >= T
            /\ IsLastWindow(h.seasonal_indicators, in.past_seasonal_indicators, T)
            /\ IsLastWindow(h.time_feat, in.past_time_feat, T)
            /\ IsLastWindow(h.x, in.past_target, T)
            /\ IsLastWindow(h.observed_context, in.past_observed_values, T)
            /\ h.observed.shape = <<BatchSize, T>>
            /\ \A b \in 1..BatchSize, t \in 1..T :
                  h.observed.val[<<b, t>>] =
                      in.past_observed_values.val[
                          <<b, t + in.past_observed_values.shape[2] - T, 1>>]
            /\ h.length = T
            /\ net_last.locals.lds.seq_length = T
            /\ net_last.locals.lds.emission_coeff.shape[2] = T
            /\ \A b \in 1..BatchSize : Len(LastSteps[b]) = T

\* a network of past_length 3 has run on inputs of more than 3 steps whose
\* first steps differ from the first steps of the window
WitC19_LongerHistory ==
    /\ net_last # None
    /\ net.past_length = 3
    /\ net_last.in.past_target.shape[2] > 3
    /\ net_last.locals.handed.x.val[<<1, 1, 1>>]
          # net_last.in.past_target.val[<<1, 1, 1>>]
    /\ net_last.locals.handed.observed.val[<<1, 1>>]
          # net_last.in.past_observed_values.val[<<1, 1, 1>>]

=============================================================================
